---- MODULE Spec2Model ----
(***************************************************************************)
(* cornedbeef: the Swiss-table map of src/src/fifth.rs (metadata bytes     *)
(* probed sixteen lanes at a time, triangular group probing, tombstones,   *)
(* in-place reclamation, resize, clone and drop).                          *)
(*                                                                         *)
(* A table is a record [n_items, n_occupied, storage, metadata].  The two  *)
(* boxed slices are sequences; bucket i of the source is element i + 1.    *)
(* A storage slot is a pair <<key, value>>; Uninit stands for a            *)
(* MaybeUninit slot that holds no pair.                                    *)
(***************************************************************************)
EXTENDS Integers, Sequences, FiniteSets, TLC

\* ------------------------------------------------------------------ bounds
MaxKeys == 33          \* keys are 1..MaxKeys
MaxVal == 1            \* values of the calls after the filling phase are 1..MaxVal
MaxTail == 2           \* inserts and removes after the filling phase
Oldest == 1            \* those calls are made on the Oldest lowest keys ...
Newest == 1            \* ... on the Newest keys inserted last, and on the next new key
MaxPanicKey == 1       \* the keys whose clone may panic are 1..MaxPanicKey
NumFams == 2           \* hash assignments tried
MaxRequest == 40       \* the largest capacity request given to with_capacity
MaxDoublings == 2      \* the probe loop is walked at the capacities 16 * 2^0 .. 16 * 2^MaxDoublings
LowLanes == 6          \* the masks iterated have their set bits in the lanes 0 .. LowLanes - 1
HighLanes == 6         \* ... and in the lanes 16 - HighLanes .. 15

Keys == 1..MaxKeys
Values == 1..MaxVal
None == 0
Uninit == <<0, 0>>

\* --------------------------------------------------------- src/metadata.rs
EMPTY == 128
TOMBSTONE == 254
MASK == 127
GROUP_SIZE == 16

from_h2(h2) == h2 % (MASK + 1)
empty == EMPTY
tombstone == TOMBSTONE
is_empty(m) == m = EMPTY
is_full(m) == (m \div 128) % 2 = 0

\* ------------------------------------------------------------- src/sse.rs
Pow2 == <<1, 2, 4, 8, 16, 32, 64, 128, 256, 512, 1024, 2048, 4096, 8192, 16384, 32768>>

\* mask.to_bitmask(): lane i of the mask is bit i of the u16
\* (the bits of the lanes lo .. hi - 1)
RECURSIVE to_bitmask_from(_, _, _)
to_bitmask_from(mask, lo, hi) ==
    IF hi = lo + 1 THEN (IF mask[lo + 1] THEN Pow2[lo + 1] ELSE 0)
    ELSE to_bitmask_from(mask, lo, (lo + hi) \div 2)
         + to_bitmask_from(mask, (lo + hi) \div 2, hi)

to_bitmask(mask) == to_bitmask_from(mask, 0, GROUP_SIZE)

\* Group::from_slice(&s[start..]): the sixteen bytes s[start] .. s[start + 15]
from_slice(s, start) == [lane \in 1..GROUP_SIZE |-> s[start + lane]]

to_empties(group) == [lane \in 1..GROUP_SIZE |-> group[lane] = empty]
to_candidates(group, h2) == [lane \in 1..GROUP_SIZE |-> group[lane] = h2]
to_fulls(group) == [lane \in 1..GROUP_SIZE |-> is_full(group[lane])]

\* u16::trailing_zeros: the position of the lowest set bit, 16 for a zero word
trailing_zeros(x) ==
    IF x = 0 THEN GROUP_SIZE
    ELSE CHOOSE i \in 0..(GROUP_SIZE - 1) : x % (2 * Pow2[i + 1]) = Pow2[i + 1]

\* the number of bits up to the highest set bit, 0 for a zero word
bit_length(x) ==
    IF x = 0 THEN 0
    ELSE 1 + CHOOSE i \in 0..(GROUP_SIZE - 1) : Pow2[i + 1] <= x /\ x < 2 * Pow2[i + 1]

\* u16::leading_zeros: 16 for a zero word
leading_zeros(x) == GROUP_SIZE - bit_length(x)

\* Variant for C40: next() that does not clear the bit it returns
forward_next_keeps_bit(inner) ==
    IF trailing_zeros(inner) = GROUP_SIZE THEN <<GROUP_SIZE, inner>>
    ELSE <<trailing_zeros(inner), inner>>

\* MaskIter<Forward>::next on the word inner: <<item, inner'>>, item 16 is None
forward_next(inner) ==
    IF trailing_zeros(inner) = GROUP_SIZE THEN <<GROUP_SIZE, inner>>
    ELSE <<trailing_zeros(inner), inner - Pow2[trailing_zeros(inner) + 1]>>

\* MaskIter<Reverse>::next
reverse_next(inner) ==
    IF leading_zeros(inner) = GROUP_SIZE THEN <<GROUP_SIZE, inner>>
    ELSE <<15 - leading_zeros(inner), inner - Pow2[(15 - leading_zeros(inner)) + 1]>>

\* find_first / find_last: the lane, or 16 for None
find_first(mask) == forward_next(to_bitmask(mask))[1]
find_last(mask) == reverse_next(to_bitmask(mask))[1]

unwrap_or(opt, default) == IF opt = GROUP_SIZE THEN default ELSE opt

\* ------------------------------------------------------------- src/lib.rs
\* fast_rem(n, modulus_power_of_two): the remainder by bitmask
fast_rem(n, m) == IF m = 0 THEN n ELSE n % m

RECURSIVE next_power_of_two(_, _)
next_power_of_two(n, p) == IF p >= n THEN p ELSE next_power_of_two(n, 2 * p)

\* fix_capacity: 0 -> 0, 1..15 -> 16, larger -> the next power of two >= n
fix_capacity(capacity) ==
    IF capacity = 0 THEN 0
    ELSE IF capacity < 16 THEN 16
    ELSE next_power_of_two(capacity, 16)

\* usize::wrapping_sub: 2^64 + a - b when a < b.  Every table size divides 2^64,
\* so reducing the wrapped word by fast_rem is reducing a - b.
wrapping_sub(a, b) == a - b

\* usize::saturating_sub
saturating_sub(a, b) == IF a >= b THEN a - b ELSE 0

\* make_hash: the 64-bit hash of a key under hash assignment fam.
\*   fam 1: every key has the same hash (home 14, h2 5)
\*   fam 2: keys 2j and 2j + 1 share a home; h2 takes four values
\*   others: every home is 15 modulo 16; h2 takes two values
make_hash(fam, k) ==
    IF fam = 1 THEN 14 * 128 + 5
    ELSE IF fam = 2 THEN (11 * (k \div 2) + 3) * 128 + (k % 4)
    ELSE (16 * k + 15) * 128 + (k % 2)

\* ------------------------------------------- src/lib.rs, src/fourth.rs
\* usize::ilog2 and the shift 1 << e
ilog2(x) == bit_length(x) - 1
shl_one(e) == Pow2[e + 1]

\* the capacity CbHashMap::with_capacity gives its table
CbHashMap_capacity(capacity) ==
    IF capacity = 0 THEN 0
    ELSE IF capacity < 16 THEN 16
    ELSE shl_one(ilog2(capacity) + 1)

\* the capacity fourth::Map::with_capacity gives its table
fourth_capacity(capacity) ==
    IF capacity = 0 THEN 0
    ELSE IF capacity < 16 THEN 16
    ELSE shl_one(ilog2(capacity) + 1)

\* ----------------------------------------------------------- src/fifth.rs
n_buckets(m) == Len(m.storage)

\* Map::with_capacity
with_capacity(capacity) ==
    LET cap == fix_capacity(capacity)
    IN  [n_items |-> 0,
         n_occupied |-> 0,
         storage |-> [i \in 1..cap |-> Uninit],
         metadata |-> IF cap = 0 THEN << >> ELSE [i \in 1..(cap + GROUP_SIZE) |-> empty]]

\* Map::new
new == with_capacity(0)

\* Map::bucket_index_and_h2: <<index, h2>>
bucket_index_and_h2(fam, m, k) ==
    LET hash == make_hash(fam, k)
        h1 == hash \div 128
        h2 == hash % 128
    IN  <<fast_rem(h1, n_buckets(m)), h2>>

\* ProbeResult, plus the two ways probe_find can fail to return one:
\* "Unreachable" is the unreachable!() after the loop, "UninitRead" is an
\* assume_init_ref on a slot that holds no pair.
ProbeEmpty(index, h2) == [tag |-> "Empty", index |-> index, h2 |-> h2]
ProbeFull(index) == [tag |-> "Full", index |-> index, h2 |-> 0]
ProbeUnreachable == [tag |-> "Unreachable", index |-> 0, h2 |-> 0]
ProbeUninitRead == [tag |-> "UninitRead", index |-> 0, h2 |-> 0]

\* The candidate loop of probe_find over the candidate mask of the group at
\* current.  MaskIter<Forward> yields the set lanes in ascending order
\* (forward_next), and the loop ends at the first lane whose slot holds no
\* pair or holds key k: the bucket whose key equals k, -1 if no candidate
\* matches, -2 if that lane designates a slot that holds no pair.
probe_candidates(m, k, current, mask) ==
    LET slot(i) == m.storage[fast_rem(current + i, n_buckets(m)) + 1]
        ends(i) == mask[i + 1] /\ (slot(i) = Uninit \/ slot(i)[1] = k)
        first(i) == IF slot(i) = Uninit THEN -2 ELSE fast_rem(current + i, n_buckets(m))
    IN  IF \E i \in 0..(GROUP_SIZE - 1) : ends(i)
        THEN first(CHOOSE i \in 0..(GROUP_SIZE - 1) :
                       ends(i) /\ \A j \in 0..(i - 1) : ~ends(j))
        ELSE -1

\* Variant for C29: the stride grows by two groups per iteration
probe_advance_by_two(current, step, capacity) ==
    fast_rem(current + 2 * step * GROUP_SIZE, capacity)

\* current = fast_rem(current + step * GROUP_SIZE, self.n_buckets());
probe_advance(current, step, capacity) ==
    fast_rem(current + step * GROUP_SIZE, capacity)

\* One iteration of the for loop of probe_find.  The loop state is
\* [current, res]: the group start of the previous iteration and the
\* ProbeResult returned so far ("Unreachable" while none has been).
probe_step(m, k, h2, st, step) ==
    LET cur == probe_advance(st.current, step, n_buckets(m))
        group == from_slice(m.metadata, cur)
        decide(found) ==
            IF found >= 0 THEN [current |-> cur, res |-> ProbeFull(found)]
            ELSE IF found = -2 THEN [current |-> cur, res |-> ProbeUninitRead]
            ELSE IF find_first(to_empties(group)) # GROUP_SIZE
            THEN [current |-> cur,
                  res |-> ProbeEmpty(fast_rem(cur + find_first(to_empties(group)),
                                              n_buckets(m)), h2)]
            ELSE [current |-> cur, res |-> ProbeUnreachable]
    IN  decide(probe_candidates(m, k, cur, to_candidates(group, h2)))

\* Where the iterations lo .. hi - 1 are cut in two: early, since most
\* probes return in their first iterations
probe_cut(lo, hi) == IF 2 * lo + 1 < hi THEN 2 * lo + 1 ELSE (lo + hi) \div 2

\* The iterations lo .. hi - 1 of the loop, in order, until one returns
RECURSIVE probe_loop(_, _, _, _, _, _)
probe_loop(m, k, h2, st, lo, hi) ==
    IF st.res.tag # "Unreachable" \/ lo >= hi THEN st
    ELSE IF hi = lo + 1 THEN probe_step(m, k, h2, st, lo)
    ELSE probe_loop(m, k, h2, probe_loop(m, k, h2, st, lo, probe_cut(lo, hi)),
                    probe_cut(lo, hi), hi)

\* Map::probe_find
probe_find(fam, m, k) ==
    probe_loop(m, k, bucket_index_and_h2(fam, m, k)[2],
               [current |-> bucket_index_and_h2(fam, m, k)[1], res |-> ProbeUnreachable],
               0, n_buckets(m)).res

\* Variant for C1: set_metadata that leaves the replicated byte alone
set_metadata_no_mirror(m, index0, value) ==
    [m EXCEPT !.metadata[fast_rem(index0, n_buckets(m)) + 1] = value]

\* Variant for C12: the replicated byte is written at the lane of the
\* bucket within its group, for every bucket
set_metadata_mirror_by_lane(m, index0, value) ==
    LET index == fast_rem(index0, n_buckets(m))
        index2 == fast_rem(index, GROUP_SIZE) + n_buckets(m)
    IN  [m EXCEPT !.metadata = [[@ EXCEPT ![index + 1] = value] EXCEPT ![index2 + 1] = value]]

\* Map::set_metadata
set_metadata(m, index0, value) ==
    LET index == fast_rem(index0, n_buckets(m))
        index2 == fast_rem(wrapping_sub(index, GROUP_SIZE), n_buckets(m)) + GROUP_SIZE
    IN  [m EXCEPT !.metadata = [[@ EXCEPT ![index + 1] = value] EXCEPT ![index2 + 1] = value]]

\* The outcome of a call: the table afterwards, the returned Option (None
\* or the value) and how the call ended: "ok", "unreachable" for the
\* unreachable!() of probe_find, "ub" for a read of a slot that holds no pair.
Outcome(m, r, st) == [map |-> m, ret |-> r, st |-> st]

Failed(m, tag) == Outcome(m, None, IF tag = "Unreachable" THEN "unreachable" ELSE "ub")

\* Map::get
get(fam, m, k) ==
    LET match(p) ==
            IF p.tag = "Empty" THEN Outcome(m, None, "ok")
            ELSE IF p.tag = "Full" THEN Outcome(m, m.storage[p.index + 1][2], "ok")
            ELSE Failed(m, p.tag)
    IN  match(probe_find(fam, m, k))

\* Variant for C22: get_mut that takes the pair out of its slot, as remove
\* does, to hand out the value
get_mut_takes(fam, m, k) ==
    LET match(p) ==
            IF p.tag = "Empty" THEN Outcome(m, None, "ok")
            ELSE IF p.tag = "Full"
            THEN Outcome([m EXCEPT !.storage[p.index + 1] = Uninit],
                         m.storage[p.index + 1][2], "ok")
            ELSE Failed(m, p.tag)
    IN  match(probe_find(fam, m, k))

\* Map::get_mut (the returned reference is not written through)
get_mut(fam, m, k) ==
    LET match(p) ==
            IF p.tag = "Empty" THEN Outcome(m, None, "ok")
            ELSE IF p.tag = "Full" THEN Outcome(m, m.storage[p.index + 1][2], "ok")
            ELSE Failed(m, p.tag)
    IN  match(probe_find(fam, m, k))

\* Variant for C2: _insert that keeps the stored value of a present key
_insert_keeps_value(fam, m, k, v) ==
    LET write(m1, index) ==
            Outcome([m1 EXCEPT !.storage[index + 1] = <<k, v>>,
                               !.n_items = @ + 1, !.n_occupied = @ + 1], None, "ok")
        match(p) ==
            IF p.tag = "Empty"
            THEN write(set_metadata(m, p.index, from_h2(p.h2)), p.index)
            ELSE IF p.tag = "Full" THEN Outcome(m, m.storage[p.index + 1][2], "ok")
            ELSE Failed(m, p.tag)
    IN  match(probe_find(fam, m, k))

\* Map::_insert
_insert(fam, m, k, v) ==
    LET write(m1, index) ==
            Outcome([m1 EXCEPT !.storage[index + 1] = <<k, v>>,
                               !.n_items = @ + 1, !.n_occupied = @ + 1], None, "ok")
        match(p) ==
            IF p.tag = "Empty"
            THEN write(set_metadata(m, p.index, from_h2(p.h2)), p.index)
            ELSE IF p.tag = "Full"
            THEN Outcome([m EXCEPT !.storage[p.index + 1][2] = v],
                         m.storage[p.index + 1][2], "ok")
            ELSE Failed(m, p.tag)
    IN  match(probe_find(fam, m, k))

\* Variant for C32: a resize only once more buckets are occupied than the
\* table has
needs_resize_when_over(m) ==
    n_buckets(m) = 0 \/ m.n_occupied > n_buckets(m)

\* Map::needs_resize
needs_resize(m) ==
    n_buckets(m) = 0 \/ ((m.n_occupied * 8) \div n_buckets(m)) > 7

\* One old bucket of the re-insertion loop of resize.  The chunks of
\* sixteen metadata bytes zipped with the chunks of sixteen slots visit the
\* buckets 0 .. old capacity - 1 in order, never the replicated group.
resize_step(fam, o, old_metadata, old_storage, i) ==
    LET chunk == from_slice(old_metadata, (i \div GROUP_SIZE) * GROUP_SIZE)
        lane_is_full == to_fulls(chunk)[(i % GROUP_SIZE) + 1]
        bucket == old_storage[i + 1]
    IN  IF ~lane_is_full THEN o
        ELSE IF bucket = Uninit THEN Outcome(o.map, None, "ub")
        ELSE _insert(fam, o.map, bucket[1], bucket[2])

\* The old buckets lo .. hi - 1 in order, until a re-insertion fails
RECURSIVE resize_loop(_, _, _, _, _, _)
resize_loop(fam, o, old_metadata, old_storage, lo, hi) ==
    IF o.st # "ok" \/ lo >= hi THEN o
    ELSE IF hi = lo + 1 THEN resize_step(fam, o, old_metadata, old_storage, lo)
    ELSE resize_loop(fam,
                     resize_loop(fam, o, old_metadata, old_storage, lo, (lo + hi) \div 2),
                     old_metadata, old_storage, (lo + hi) \div 2, hi)

\* Variant for C15: resize that gives an unallocated table eight buckets
resize_from_eight(fam, m) ==
    LET capacity == IF n_buckets(m) = 0 THEN 8 ELSE n_buckets(m) * 2
        fresh == [n_items |-> 0,
                  n_occupied |-> 0,
                  storage |-> [i \in 1..capacity |-> Uninit],
                  metadata |-> [i \in 1..(capacity + GROUP_SIZE) |-> empty]]
    IN  resize_loop(fam, Outcome(fresh, None, "ok"), m.metadata, m.storage,
                    0, n_buckets(m))

\* Map::resize
resize(fam, m) ==
    LET capacity == IF n_buckets(m) = 0 THEN 16 ELSE n_buckets(m) * 2
        fresh == [n_items |-> 0,
                  n_occupied |-> 0,
                  storage |-> [i \in 1..capacity |-> Uninit],
                  metadata |-> [i \in 1..(capacity + GROUP_SIZE) |-> empty]]
    IN  resize_loop(fam, Outcome(fresh, None, "ok"), m.metadata, m.storage,
                    0, n_buckets(m))

\* Map::insert
insert(fam, m, k, v) ==
    LET then(r) == IF r.st # "ok" THEN r ELSE _insert(fam, r.map, k, v)
    IN  then(IF needs_resize(m) THEN resize(fam, m) ELSE Outcome(m, None, "ok"))

\* Variant for C4: every removed bucket goes back to EMPTY
decide_always_empty(m, index) == empty

\* Variant for C28: the bucket goes back to EMPTY when the group that
\* starts at it has an EMPTY byte, whatever comes before it
decide_by_next_empty(m, index) ==
    IF n_buckets(m) = GROUP_SIZE THEN empty
    ELSE
        LET probe_current == from_slice(m.metadata, index)
            next_empty == unwrap_or(find_first(to_empties(probe_current)), GROUP_SIZE)
        IN  IF next_empty < GROUP_SIZE THEN empty ELSE tombstone

\* Variant for C26: the bucket goes back to EMPTY when the distance between
\* the two EMPTY bytes is at most a group
decide_at_most_group(m, index) ==
    IF n_buckets(m) = GROUP_SIZE THEN empty
    ELSE
        LET probe_current == from_slice(m.metadata, index)
            next_empty == unwrap_or(find_first(to_empties(probe_current)), GROUP_SIZE)
            previous == fast_rem(wrapping_sub(index, GROUP_SIZE), n_buckets(m))
            probe_previous == from_slice(m.metadata, previous)
            last_empty == unwrap_or(find_last(to_empties(probe_previous)), 0)
            distance == saturating_sub(next_empty + GROUP_SIZE, last_empty)
        IN  IF distance <= GROUP_SIZE THEN empty ELSE tombstone

\* Map::decide_tombstone_or_empty
decide_tombstone_or_empty(m, index) ==
    IF n_buckets(m) = GROUP_SIZE THEN empty
    ELSE
        LET probe_current == from_slice(m.metadata, index)
            next_empty == unwrap_or(find_first(to_empties(probe_current)), GROUP_SIZE)
            previous == fast_rem(wrapping_sub(index, GROUP_SIZE), n_buckets(m))
            probe_previous == from_slice(m.metadata, previous)
            last_empty == unwrap_or(find_last(to_empties(probe_previous)), 0)
            distance == saturating_sub(next_empty + GROUP_SIZE, last_empty)
        IN  IF distance < GROUP_SIZE THEN empty ELSE tombstone

\* Variant for C11: remove that takes the pair out of the slot and leaves
\* the metadata byte of the bucket as it was
remove_keeps_metadata(fam, m, k) ==
    LET match(p) ==
            IF p.tag = "Empty" THEN Outcome(m, None, "ok")
            ELSE IF p.tag = "Full"
            THEN Outcome([m EXCEPT !.storage[p.index + 1] = Uninit,
                                   !.n_items = @ - 1],
                         m.storage[p.index + 1][2], "ok")
            ELSE Failed(m, p.tag)
    IN  match(probe_find(fam, m, k))

\* Variant for C13: remove that gives the bucket back to n_occupied
\* whatever byte it leaves in it
remove_always_frees(fam, m, k) ==
    LET mark(m1, index, vv, metadata_value) ==
            Outcome([set_metadata(m1, index, metadata_value)
                        EXCEPT !.n_items = @ - 1, !.n_occupied = @ - 1],
                    vv, "ok")
        take(m1, index, vv) == mark(m1, index, vv, decide_tombstone_or_empty(m1, index))
        match(p) ==
            IF p.tag = "Empty" THEN Outcome(m, None, "ok")
            ELSE IF p.tag = "Full"
            THEN take([m EXCEPT !.storage[p.index + 1] = Uninit], p.index,
                      m.storage[p.index + 1][2])
            ELSE Failed(m, p.tag)
    IN  match(probe_find(fam, m, k))

\* Variant for C16: remove that gives the allocation back when it takes
\* the last pair out
remove_shrinks_when_empty(fam, m, k) ==
    LET mark(m1, index, vv, metadata_value) ==
            Outcome([set_metadata(m1, index, metadata_value)
                        EXCEPT !.n_items = @ - 1,
                               !.n_occupied = IF is_empty(metadata_value) THEN @ - 1 ELSE @],
                    vv, "ok")
        take(m1, index, vv) ==
            IF m1.n_items = 1 THEN Outcome(new, vv, "ok")
            ELSE mark(m1, index, vv, decide_tombstone_or_empty(m1, index))
        match(p) ==
            IF p.tag = "Empty" THEN Outcome(m, None, "ok")
            ELSE IF p.tag = "Full"
            THEN take([m EXCEPT !.storage[p.index + 1] = Uninit], p.index,
                      m.storage[p.index + 1][2])
            ELSE Failed(m, p.tag)
    IN  match(probe_find(fam, m, k))

\* Map::remove
remove(fam, m, k) ==
    LET mark(m1, index, vv, metadata_value) ==
            Outcome([set_metadata(m1, index, metadata_value)
                        EXCEPT !.n_items = @ - 1,
                               !.n_occupied = IF is_empty(metadata_value) THEN @ - 1 ELSE @],
                    vv, "ok")
        take(m1, index, vv) == mark(m1, index, vv, decide_tombstone_or_empty(m1, index))
        match(p) ==
            IF p.tag = "Empty" THEN Outcome(m, None, "ok")
            ELSE IF p.tag = "Full"
            THEN take([m EXCEPT !.storage[p.index + 1] = Uninit], p.index,
                      m.storage[p.index + 1][2])
            ELSE Failed(m, p.tag)
    IN  match(probe_find(fam, m, k))

\* Map::len, Map::is_empty
len(m) == m.n_items
map_is_empty(m) == m.n_items = 0

\* One bucket of the loop of Clone::clone
clone_step(m, other, i) ==
    IF is_full(m.metadata[i + 1]) THEN
        LET o1 == [other EXCEPT !.storage[i + 1] = m.storage[i + 1]]
            o2 == set_metadata(o1, i, m.metadata[i + 1])
        IN  [o2 EXCEPT !.n_items = @ + 1, !.n_occupied = @ + 1]
    ELSE other

\* The buckets lo .. hi - 1 of the loop, in order (other has the buckets
\* of m: the assert_eq! before the loop)
RECURSIVE clone_loop(_, _, _, _)
clone_loop(m, other, lo, hi) ==
    IF n_buckets(other) # n_buckets(m) \/ lo >= hi THEN other
    ELSE IF hi = lo + 1 THEN clone_step(m, other, lo)
    ELSE clone_loop(m, clone_loop(m, other, lo, (lo + hi) \div 2), (lo + hi) \div 2, hi)

\* Variant for C9: the metadata byte of a bucket is set before its pair is
\* cloned
clone_until_metadata_first(m, stop) ==
    LET early(built) ==
            IF stop < n_buckets(m) THEN set_metadata(built, stop, m.metadata[stop + 1])
            ELSE built
    IN  early(clone_loop(m, with_capacity(n_buckets(m)), 0, stop))

\* The table Clone::clone has built when it reaches bucket stop
\* (stop = n_buckets: when the loop is over)
clone_until(m, stop) == clone_loop(m, with_capacity(n_buckets(m)), 0, stop)

\* Variant for C10: the clone is sized by the number of items
clone_sized_by_len(m) ==
    LET fill(other) ==
            IF n_buckets(m) # n_buckets(other) THEN Outcome(other, None, "assert")
            ELSE Outcome(clone_loop(m, other, 0, n_buckets(m)), None, "ok")
    IN  fill(with_capacity(m.n_items))

\* Clone::clone; "assert" is a failed assert_eq! on the two capacities
clone(m) ==
    LET fill(other) ==
            IF n_buckets(m) # n_buckets(other) THEN Outcome(other, None, "assert")
            ELSE Outcome(clone_until(m, n_buckets(m)), None, "ok")
    IN  fill(with_capacity(n_buckets(m)))

\* Variant for C19: drop that destroys the slot of every bucket whose byte
\* is not EMPTY
drop_non_empty(m) ==
    [i \in {j \in 0..(n_buckets(m) - 1) : ~is_empty(m.metadata[j + 1])} |-> m.storage[i + 1]]

\* Drop for Map: bucket |-> the slot handed to assume_init_drop (the loop
\* visits each bucket index once)
drop(m) ==
    [i \in {j \in 0..(n_buckets(m) - 1) : is_full(m.metadata[j + 1])} |-> m.storage[i + 1]]

\* ----------------------------------------------------------- src/sixth.rs
\* sixth::Map keeps the metadata bytes and the slots in one heap block.  A
\* table is [n_items, n_occupied, n_buckets, block, metadata, storage]:
\* block names the allocation both pointers point into (dangling for
\* NonNull::dangling()), metadata and storage are what the block holds.
\* The allocator is a ledger: the live blocks with the capacity of their
\* layout, how many blocks were allocated and freed, and whether a
\* deallocate was given a pointer or a layout that is no live block.
dangling == 0

NoHeap == [live |-> {}, allocated |-> 0, freed |-> 0, invalid |-> FALSE]

\* Metadata::is_value, Metadata::h2 (from_h2, empty, tombstone and
\* is_empty are those of src/metadata.rs)
is_value(md) == (md \div 128) = 0
metadata_h2(md) == md % (MASK + 1)

\* allocator.allocate in allocate_for_capacity: the block gets the next name
allocate(h, capacity) ==
    [h EXCEPT !.allocated = @ + 1, !.live = @ \cup {<<h.allocated + 1, capacity>>}]

\* allocator.deallocate(ptr, layout_for_capacity(capacity))
deallocate(h, ptr, capacity) ==
    IF <<ptr, capacity>> \in h.live
    THEN [h EXCEPT !.freed = @ + 1, !.live = @ \ {<<ptr, capacity>>}]
    ELSE [h EXCEPT !.freed = @ + 1, !.invalid = TRUE]

\* allocate_for_capacity: the table of capacity buckets in a new block
allocate_for_capacity(h, capacity) ==
    [heap |-> allocate(h, capacity),
     map |-> [n_items |-> 0, n_occupied |-> 0, n_buckets |-> capacity,
              block |-> h.allocated + 1,
              metadata |-> [i \in 1..capacity |-> EMPTY],
              storage |-> [i \in 1..capacity |-> Uninit]]]

\* sixth::Map::with_capacity, sixth::Map::new: [heap, map]
sixth_with_capacity(h, capacity) ==
    IF fix_capacity(capacity) > 0 THEN allocate_for_capacity(h, fix_capacity(capacity))
    ELSE [heap |-> h,
          map |-> [n_items |-> 0, n_occupied |-> 0, n_buckets |-> 0,
                   block |-> dangling, metadata |-> << >>, storage |-> << >>]]

sixth_new(h) == sixth_with_capacity(h, 0)

\* sixth::Map::bucket_index_and_h2 (only called with n_buckets > 0)
sixth_bucket_index_and_h2(fam, m, k) ==
    <<(make_hash(fam, k) \div 128) % m.n_buckets, make_hash(fam, k) % 128>>

\* Variant for C35: the stride of the probe stays at two buckets
sixth_probe_at_by_two(home, j, n) == (home + 2 * j) % n

\* The bucket iteration j of the loop of probe_find looks at: current after
\* j rounds of current = rem_euclid(current + step, n_buckets); step += 1,
\* with step starting at 1
sixth_probe_at(home, j, n) == (home + (j * (j + 1)) \div 2) % n

\* The last iteration of the loop when nothing returns before: the first j
\* after which current is the home bucket again
sixth_probe_last(home, n) ==
    CHOOSE j \in 0..(2 * n) :
        /\ sixth_probe_at(home, j + 1, n) = home
        /\ \A i \in 0..(j - 1) : sixth_probe_at(home, i + 1, n) # home

\* sixth::Map::probe_find.  Iteration j of the loop looks at bucket
\* at(j) = home + 1 + 2 + .. + j (mod n_buckets); the loop returns at the
\* first bucket that is EMPTY or holds k, and returns End when current
\* comes back to the home bucket.
sixth_probe_find(fam, m, k) ==
    LET home == sixth_bucket_index_and_h2(fam, m, k)[1]
        h2 == sixth_bucket_index_and_h2(fam, m, k)[2]
        at(j) == sixth_probe_at(home, j, m.n_buckets)
        compares(j) == is_value(m.metadata[at(j) + 1]) /\ metadata_h2(m.metadata[at(j) + 1]) = h2
        returns(j) ==
            \/ is_empty(m.metadata[at(j) + 1])
            \/ compares(j) /\ (m.storage[at(j) + 1] = Uninit \/ m.storage[at(j) + 1][1] = k)
        result(j) ==
            IF is_empty(m.metadata[at(j) + 1]) THEN ProbeEmpty(at(j), h2)
            ELSE IF m.storage[at(j) + 1] = Uninit THEN ProbeUninitRead
            ELSE ProbeFull(at(j))
        search(end) ==
            IF \E j \in 0..end : returns(j)
            THEN result(CHOOSE j \in 0..end : returns(j) /\ \A i \in 0..(j - 1) : ~returns(i))
            ELSE [tag |-> "End", index |-> 0, h2 |-> 0]
    IN  search(sixth_probe_last(home, m.n_buckets))

\* The outcome of a call on a sixth::Map: the table and the allocator
\* afterwards, the returned Option and how the call ended: "ok", "panic"
\* for the panic!() of _insert, "ub" for a read of a slot that holds no pair
Outcome6(m, h, r, st) == [map |-> m, heap |-> h, ret |-> r, st |-> st]

\* sixth::Map::get
sixth_get(fam, m, h, k) ==
    LET match(p) ==
            IF p.tag = "Full" THEN Outcome6(m, h, m.storage[p.index + 1][2], "ok")
            ELSE IF p.tag = "UninitRead" THEN Outcome6(m, h, None, "ub")
            ELSE Outcome6(m, h, None, "ok")
    IN  IF m.n_buckets = 0 THEN Outcome6(m, h, None, "ok")
        ELSE match(sixth_probe_find(fam, m, k))

\* sixth::Map::_insert
sixth__insert(fam, m, h, k, v) ==
    LET match(p) ==
            IF p.tag = "Empty"
            THEN Outcome6([m EXCEPT !.metadata[p.index + 1] = from_h2(p.h2),
                                    !.storage[p.index + 1] = <<k, v>>,
                                    !.n_items = @ + 1,
                                    !.n_occupied = @ + 1],
                          h, None, "ok")
            ELSE IF p.tag = "Full"
            THEN Outcome6([m EXCEPT !.storage[p.index + 1][2] = v], h,
                          m.storage[p.index + 1][2], "ok")
            ELSE Outcome6(m, h, None, IF p.tag = "End" THEN "panic" ELSE "ub")
    IN  match(sixth_probe_find(fam, m, k))

\* Variant for C34: remove that gives the bucket back as EMPTY
sixth_remove_empties(fam, m, h, k) ==
    LET match(p) ==
            IF p.tag = "Full"
            THEN Outcome6([m EXCEPT !.storage[p.index + 1] = Uninit,
                                    !.metadata[p.index + 1] = empty,
                                    !.n_items = @ - 1],
                          h, m.storage[p.index + 1][2], "ok")
            ELSE IF p.tag = "UninitRead" THEN Outcome6(m, h, None, "ub")
            ELSE Outcome6(m, h, None, "ok")
    IN  IF m.n_buckets = 0 THEN Outcome6(m, h, None, "ok")
        ELSE match(sixth_probe_find(fam, m, k))

\* sixth::Map::remove
sixth_remove(fam, m, h, k) ==
    LET match(p) ==
            IF p.tag = "Full"
            THEN Outcome6([m EXCEPT !.storage[p.index + 1] = Uninit,
                                    !.metadata[p.index + 1] = tombstone,
                                    !.n_items = @ - 1],
                          h, m.storage[p.index + 1][2], "ok")
            ELSE IF p.tag = "UninitRead" THEN Outcome6(m, h, None, "ub")
            ELSE Outcome6(m, h, None, "ok")
    IN  IF m.n_buckets = 0 THEN Outcome6(m, h, None, "ok")
        ELSE match(sixth_probe_find(fam, m, k))

\* sixth::Map::len
sixth_len(m) == m.n_items

\* sixth::Map::needs_resize
sixth_needs_resize(m) ==
    m.n_buckets = 0 \/ ((m.n_occupied * 8) \div m.n_buckets) > 7

\* One old bucket of the loop of resize that moves the pairs
sixth_resize_step(fam, o, old, offset) ==
    IF ~is_value(old.metadata[offset + 1]) THEN o
    ELSE IF old.storage[offset + 1] = Uninit THEN Outcome6(o.map, o.heap, None, "ub")
    ELSE sixth__insert(fam, o.map, o.heap, old.storage[offset + 1][1], old.storage[offset + 1][2])

\* The old buckets lo .. hi - 1 in order, until a re-insertion fails
RECURSIVE sixth_resize_loop(_, _, _, _, _)
sixth_resize_loop(fam, o, old, lo, hi) ==
    IF o.st # "ok" \/ lo >= hi THEN o
    ELSE IF hi = lo + 1 THEN sixth_resize_step(fam, o, old, lo)
    ELSE sixth_resize_loop(fam, sixth_resize_loop(fam, o, old, lo, (lo + hi) \div 2),
                           old, (lo + hi) \div 2, hi)

\* Variant for C20: resize without the early return for an old capacity of 0
sixth_resize_without_early_return(fam, m, h) ==
    LET capacity == IF m.n_buckets = 0 THEN 16 ELSE m.n_buckets * 2
        free(o) == IF o.st # "ok" THEN o
                   ELSE Outcome6(o.map, deallocate(o.heap, m.block, m.n_buckets), None, "ok")
        move(a) == free(sixth_resize_loop(fam, Outcome6(a.map, a.heap, None, "ok"),
                                          m, 0, m.n_buckets))
    IN  move(allocate_for_capacity(h, capacity))

\* sixth::Map::resize
sixth_resize(fam, m, h) ==
    LET capacity == IF m.n_buckets = 0 THEN 16 ELSE m.n_buckets * 2
        free(o) == IF o.st # "ok" THEN o
                   ELSE Outcome6(o.map, deallocate(o.heap, m.block, m.n_buckets), None, "ok")
        move(a) == IF m.n_buckets = 0 THEN Outcome6(a.map, a.heap, None, "ok")
                   ELSE free(sixth_resize_loop(fam, Outcome6(a.map, a.heap, None, "ok"),
                                               m, 0, m.n_buckets))
    IN  move(allocate_for_capacity(h, capacity))

\* sixth::Map::insert
sixth_insert(fam, m, h, k, v) ==
    LET then(r) == IF r.st # "ok" THEN r ELSE sixth__insert(fam, r.map, r.heap, k, v)
    IN  then(IF sixth_needs_resize(m) THEN sixth_resize(fam, m, h)
             ELSE Outcome6(m, h, None, "ok"))

\* Drop for sixth::Map: the slots it destroys (ret) and the allocator
\* after the deallocate
sixth_drop(m, h) ==
    Outcome6(m,
             IF m.n_buckets > 0 THEN deallocate(h, m.block, m.n_buckets) ELSE h,
             [i \in {j \in 0..(m.n_buckets - 1) : is_value(m.metadata[j + 1])}
                 |-> m.storage[i + 1]],
             "dropped")

\* --------------------------------------------------- src/lib.rs, CbHashMap
\* CbHashMap is [n_buckets, n_occupied, n_items, metadata, storage]; a slot
\* of storage is an Option<(K, V)>, NoPair for None.  A call ends "ok", in
\* "div_zero" (rem_euclid with n_buckets = 0 panics), in "unwrap_none" (an
\* unwrap of a None slot panics) or in "diverge": its loop has no exit but
\* its returns, and never reaches one.
NoPair == <<0, 0>>

\* CbHashMap::with_capacity, CbHashMap::new
CbHashMap_with_capacity(capacity) ==
    [n_buckets |-> CbHashMap_capacity(capacity),
     n_items |-> 0,
     n_occupied |-> 0,
     storage |-> [i \in 1..CbHashMap_capacity(capacity) |-> NoPair],
     metadata |-> [i \in 1..CbHashMap_capacity(capacity) |-> EMPTY]]

CbHashMap_new == CbHashMap_with_capacity(0)

\* CbHashMap::hashes and key_to_index: <<index, h2>> (n_buckets > 0)
CbHashMap_key_to_index(fam, m, k) ==
    <<(make_hash(fam, k) \div 128) % m.n_buckets, make_hash(fam, k) % 128>>

\* The bucket iteration j of the loops of insert_unchecked, remove, get and
\* get_mut looks at: current after j rounds of
\* current = rem_euclid(current + step, n_buckets); step += 1, step from 1
CbHashMap_probe_at(home, j, n) == (home + (j * (j + 1)) \div 2) % n

\* The loop that insert_unchecked (takes_tombstone), remove, get and
\* get_mut each have: it returns at the first bucket that is EMPTY (or, for
\* insert_unchecked, a TOMBSTONE) or holds k.  The buckets it looks at
\* repeat with period 2 * n_buckets and the loop changes nothing, so a loop
\* that has not returned in 2 * n_buckets iterations never does.
CbHashMap_loop(fam, m, k, takes_tombstone) ==
    LET home == CbHashMap_key_to_index(fam, m, k)[1]
        h2 == CbHashMap_key_to_index(fam, m, k)[2]
        at(j) == CbHashMap_probe_at(home, j, m.n_buckets)
        meta(j) == m.metadata[at(j) + 1]
        free(j) == is_empty(meta(j)) \/ (takes_tombstone /\ meta(j) = tombstone)
        compares(j) == is_value(meta(j)) /\ metadata_h2(meta(j)) = h2
        returns(j) ==
            \/ free(j)
            \/ compares(j) /\ (m.storage[at(j) + 1] = NoPair \/ m.storage[at(j) + 1][1] = k)
        result(j) ==
            IF free(j) THEN ProbeEmpty(at(j), h2)
            ELSE IF m.storage[at(j) + 1] = NoPair
            THEN [tag |-> "UnwrapNone", index |-> 0, h2 |-> 0]
            ELSE ProbeFull(at(j))
    IN  IF \E j \in 0..(2 * m.n_buckets - 1) : returns(j)
        THEN result(CHOOSE j \in 0..(2 * m.n_buckets - 1) :
                        returns(j) /\ \A i \in 0..(j - 1) : ~returns(i))
        ELSE [tag |-> "Diverge", index |-> 0, h2 |-> 0]

\* how a call ends whose loop did not return a bucket
CbHashMap_failed(m, tag) ==
    Outcome(m, None, IF tag = "Diverge" THEN "diverge" ELSE "unwrap_none")

\* Variant for C39: insert_unchecked that takes only EMPTY buckets
CbHashMap_insert_unchecked_no_reuse(fam, m, k, v) ==
    LET match(p) ==
            IF p.tag = "Empty"
            THEN Outcome([m EXCEPT !.n_occupied = @ + 1,
                                   !.n_items = @ + 1,
                                   !.storage[p.index + 1] = <<k, v>>,
                                   !.metadata[p.index + 1] = from_h2(p.h2)],
                         None, "ok")
            ELSE IF p.tag = "Full"
            THEN Outcome([m EXCEPT !.storage[p.index + 1][2] = v],
                         m.storage[p.index + 1][2], "ok")
            ELSE CbHashMap_failed(m, p.tag)
    IN  match(CbHashMap_loop(fam, m, k, FALSE))

\* CbHashMap::insert_unchecked
CbHashMap_insert_unchecked(fam, m, k, v) ==
    LET match(p) ==
            IF p.tag = "Empty"
            THEN Outcome([m EXCEPT !.n_occupied =
                                       @ + (IF is_empty(m.metadata[p.index + 1]) THEN 1 ELSE 0),
                                   !.n_items = @ + 1,
                                   !.storage[p.index + 1] = <<k, v>>,
                                   !.metadata[p.index + 1] = from_h2(p.h2)],
                         None, "ok")
            ELSE IF p.tag = "Full"
            THEN Outcome([m EXCEPT !.storage[p.index + 1][2] = v],
                         m.storage[p.index + 1][2], "ok")
            ELSE CbHashMap_failed(m, p.tag)
    IN  match(CbHashMap_loop(fam, m, k, TRUE))

\* CbHashMap::needs_grow
CbHashMap_needs_grow(m) ==
    m.n_buckets = 0 \/ ((m.n_items * 8) \div m.n_buckets) > 7

\* One old bucket of the loop of grow_table
CbHashMap_grow_step(fam, o, old, i) ==
    IF ~is_value(old.metadata[i + 1]) THEN o
    ELSE IF old.storage[i + 1] = NoPair THEN Outcome(o.map, None, "unwrap_none")
    ELSE CbHashMap_insert_unchecked(fam, o.map, old.storage[i + 1][1], old.storage[i + 1][2])

\* The old buckets lo .. hi - 1 in order, until a re-insertion fails
RECURSIVE CbHashMap_grow_loop(_, _, _, _, _)
CbHashMap_grow_loop(fam, o, old, lo, hi) ==
    IF o.st # "ok" \/ lo >= hi THEN o
    ELSE IF hi = lo + 1 THEN CbHashMap_grow_step(fam, o, old, lo)
    ELSE CbHashMap_grow_loop(fam, CbHashMap_grow_loop(fam, o, old, lo, (lo + hi) \div 2),
                             old, (lo + hi) \div 2, hi)

\* CbHashMap::grow_table
CbHashMap_grow_table(fam, m) ==
    LET capacity == IF m.n_buckets = 0 THEN 16 ELSE m.n_buckets * 2
        fresh == [n_buckets |-> capacity,
                  n_items |-> 0,
                  n_occupied |-> 0,
                  storage |-> [i \in 1..capacity |-> NoPair],
                  metadata |-> [i \in 1..capacity |-> EMPTY]]
    IN  CbHashMap_grow_loop(fam, Outcome(fresh, None, "ok"), m, 0, m.n_buckets)

\* CbHashMap::insert
CbHashMap_insert(fam, m, k, v) ==
    LET then(r) == IF r.st # "ok" THEN r ELSE CbHashMap_insert_unchecked(fam, r.map, k, v)
    IN  then(IF CbHashMap_needs_grow(m) THEN CbHashMap_grow_table(fam, m)
             ELSE Outcome(m, None, "ok"))

\* CbHashMap::remove
CbHashMap_remove(fam, m, k) ==
    LET match(p) ==
            IF p.tag = "Empty" THEN Outcome(m, None, "ok")
            ELSE IF p.tag = "Full"
            THEN Outcome([m EXCEPT !.n_items = @ - 1,
                                   !.metadata[p.index + 1] = tombstone,
                                   !.storage[p.index + 1] = NoPair],
                         m.storage[p.index + 1][2], "ok")
            ELSE CbHashMap_failed(m, p.tag)
    IN  IF m.n_buckets = 0 THEN Outcome(m, None, "div_zero")
        ELSE match(CbHashMap_loop(fam, m, k, FALSE))

\* CbHashMap::get
CbHashMap_get(fam, m, k) ==
    LET match(p) ==
            IF p.tag = "Empty" THEN Outcome(m, None, "ok")
            ELSE IF p.tag = "Full" THEN Outcome(m, m.storage[p.index + 1][2], "ok")
            ELSE CbHashMap_failed(m, p.tag)
    IN  IF m.n_buckets = 0 THEN Outcome(m, None, "div_zero")
        ELSE match(CbHashMap_loop(fam, m, k, FALSE))

\* CbHashMap::get_mut (the reference not written through)
CbHashMap_get_mut(fam, m, k) ==
    LET match(p) ==
            IF p.tag = "Empty" THEN Outcome(m, None, "ok")
            ELSE IF p.tag = "Full" THEN Outcome(m, m.storage[p.index + 1][2], "ok")
            ELSE CbHashMap_failed(m, p.tag)
    IN  IF m.n_buckets = 0 THEN Outcome(m, None, "div_zero")
        ELSE match(CbHashMap_loop(fam, m, k, FALSE))

\* CbHashMap::len
CbHashMap_len(m) == m.n_items

\* ------------------------------------------------------------ the machine
VARIABLES
    map,        \* the table
    other,      \* the table clone() has built (whole, or up to the panic)
    cloned,     \* 0: no clone yet; 1: clone() returned; 2: clone() panicked
    dropped,    \* the slots destroyed by the drop of an abandoned clone
    model,      \* the dictionary the calls so far describe (key -> value or None)
    last,       \* the last insert, remove or clone: [op, k, v, ret]
    status,     \* "ok", or how the last call failed: "unreachable", "ub",
                \* "assert", "clone_panic"
    fam,        \* the hash assignment of this run
    used,       \* keys 1..used have been inserted at some time
    tail,       \* calls made since the run left the filling phase
    six,        \* the sixth::Map of the runs that use one
    heap,       \* the allocator that sixth::Map allocates from
    pc,         \* where a running _insert is: [stmt, index, h2, k, v], stmt
                \* the statement executed last ("idle": none is running)
    walk,       \* the loop of probe_find on its own: [capacity, home, step,
                \* current, seen], seen the window starts of the iterations
                \* 0 .. step - 1
    cb,         \* the CbHashMap of the runs that use one
    iter        \* a MaskIter on its own: [mask, inner, yielded, ended], yielded
                \* the items next() has returned, ended after it returned None

vars == <<map, other, cloned, dropped, model, last, status, fam, used, tail, six, heap,
          pc, walk, cb, iter>>

CapRequests == {0, 32}

NoIter == [mask |-> 0, inner |-> 0, yielded |-> << >>, ended |-> FALSE]

NoWalk == [capacity |-> 0, home |-> 0, step |-> 0, current |-> 0, seen |-> {}]

Idle == [stmt |-> "idle", index |-> 0, h2 |-> 0, k |-> 0, v |-> 0]

Call(op, k, v, r) == [op |-> op, k |-> k, v |-> v, ret |-> r]

Init ==
    /\ \E c \in CapRequests : map = with_capacity(c)
    /\ other = new
    /\ cloned = 0
    /\ dropped = drop(new)
    /\ model = [k \in Keys |-> None]
    /\ last = Call("new", 0, 0, None)
    /\ status = "ok"
    /\ fam \in 1..NumFams
    /\ used = 0
    /\ tail = 0
    /\ six = sixth_new(NoHeap).map
    /\ heap = NoHeap
    /\ pc = Idle
    /\ walk = NoWalk
    /\ cb = CbHashMap_new
    /\ iter = NoIter

Max(a, b) == IF a >= b THEN a ELSE b

\* A run first fills the table, inserting the new keys 1, 2, 3, ... in this
\* order, key k with value k (as the benches of the repository do); at any
\* point it leaves the filling phase for at most MaxTail further calls of
\* insert and remove on the keys CallKeys with the values Values.  Lookups
\* and clone are possible at every point.
NextKey == IF used + 1 <= MaxKeys THEN used + 1 ELSE MaxKeys
CallKeys == {k \in Keys : k <= used /\ (k <= Oldest \/ k > used - Newest)} \cup {NextKey}

Filling(k, v) == tail = 0 /\ cloned = 0 /\ k = used + 1 /\ v = k

\* The table calls go to: the clone once there is one
cur == IF cloned = 1 THEN other ELSE map

CanCall == status = "ok" /\ cloned # 2

\* The effect of a call on the table the calls go to
Becomes(o) ==
    /\ status' = o.st
    /\ IF cloned = 1
       THEN other' = o.map /\ map' = map
       ELSE map' = o.map /\ other' = other

\* insert(k, v)
Insert(k, v) ==
    /\ CanCall
    /\ Filling(k, v) \/ (tail < MaxTail /\ k \in CallKeys /\ v \in Values)
    /\ \E o \in {insert(fam, cur, k, v)} :
          /\ Becomes(o)
          /\ last' = Call("insert", k, v, o.ret)
          /\ model' = IF o.st = "ok" THEN [model EXCEPT ![k] = v] ELSE model
    /\ used' = Max(used, k)
    /\ tail' = IF Filling(k, v) THEN 0 ELSE tail + 1
    /\ UNCHANGED <<cloned, dropped, fam, six, heap, pc, walk, cb, iter>>

\* remove(&k)
Remove(k) ==
    /\ CanCall
    /\ tail < MaxTail
    /\ \E o \in {remove(fam, cur, k)} :
          /\ Becomes(o)
          /\ last' = Call("remove", k, 0, o.ret)
          /\ model' = IF o.st = "ok" THEN [model EXCEPT ![k] = None] ELSE model
    /\ tail' = tail + 1
    /\ UNCHANGED <<cloned, dropped, fam, used, six, heap, pc, walk, cb, iter>>

\* get(&k): no effect on the table; the returned value is get(fam, cur, k).ret.
\* A lookup that fails is recorded as the last call.
Get(k) ==
    /\ CanCall
    /\ \E o \in {get(fam, cur, k)} :
          /\ Becomes(o)
          /\ last' = IF o.st = "ok" THEN last ELSE Call("get", k, 0, None)
    /\ UNCHANGED <<cloned, dropped, model, fam, used, tail, six, heap, pc, walk, cb, iter>>

\* get_mut(&k)
GetMut(k) ==
    /\ CanCall
    /\ \E o \in {get_mut(fam, cur, k)} :
          /\ Becomes(o)
          /\ last' = IF o.st = "ok" THEN last ELSE Call("get_mut", k, 0, None)
    /\ UNCHANGED <<cloned, dropped, model, fam, used, tail, six, heap, pc, walk, cb, iter>>

\* map.clone() returns
Clone ==
    /\ CanCall
    /\ cloned = 0
    /\ \E o \in {clone(map)} :
          /\ other' = o.map
          /\ status' = o.st
          /\ cloned' = IF o.st = "ok" THEN 1 ELSE 2
    /\ last' = Call("clone", 0, 0, None)
    /\ UNCHANGED <<map, dropped, model, fam, used, tail, six, heap, pc, walk, cb, iter>>

\* The first bucket of m that holds key k, or n_buckets if none does
bucket_of(m, k) ==
    LET first(holds) ==
            IF holds = {} THEN n_buckets(m)
            ELSE CHOOSE i \in holds : \A j \in holds : i <= j
    IN  first({i \in 0..(n_buckets(m) - 1) :
                  is_full(m.metadata[i + 1]) /\ m.storage[i + 1][1] = k})

\* map.clone() panics while it clones the pair of key k: the loop has
\* finished the buckets before that of k, and unwinding drops the table
\* built so far.
ClonePanic(k) ==
    /\ CanCall
    /\ cloned = 0
    /\ model[k] # None
    /\ \E partial \in {clone_until(map, bucket_of(map, k))} :
          /\ other' = partial
          /\ dropped' = drop(partial)
    /\ cloned' = 2
    /\ status' = "clone_panic"
    /\ last' = Call("clone", k, 0, None)
    /\ UNCHANGED <<map, model, fam, used, tail, six, heap, pc, walk, cb, iter>>

Next ==
    \/ \E k \in Keys, v \in Values \cup {used + 1} : Insert(k, v)
    \/ \E k \in CallKeys : Remove(k)
    \/ \E k \in CallKeys : Get(k)
    \/ \E k \in CallKeys : GetMut(k)
    \/ Clone
    \/ \E k \in 1..MaxPanicKey : ClonePanic(k)

Spec == Init /\ [][Next]_vars

\* ------------------------------------------- remove all, then insert again
\* The run of tests::remove_and_reinsert: from new(), insert the keys
\* 1 .. used (key k with value k), remove them all in the same order, then
\* insert them again.  tail counts the calls made after the first inserts.
InitReinsert == Init /\ map = new

InsertNew ==
    /\ tail = 0
    /\ \E k \in Keys : k = used + 1 /\ Insert(k, k)

RemoveAll ==
    /\ status = "ok"
    /\ tail < used
    /\ \E o \in {remove(fam, map, tail + 1)} :
          /\ map' = o.map
          /\ status' = o.st
          /\ last' = Call("remove", tail + 1, 0, o.ret)
          /\ model' = IF o.st = "ok" THEN [model EXCEPT ![tail + 1] = None] ELSE model
    /\ tail' = tail + 1
    /\ UNCHANGED <<other, cloned, dropped, fam, used, six, heap, pc, walk, cb, iter>>

Reinsert ==
    /\ status = "ok"
    /\ used <= tail /\ tail < 2 * used
    /\ \E o \in {insert(fam, map, tail - used + 1, tail - used + 1)} :
          /\ map' = o.map
          /\ status' = o.st
          /\ last' = Call("insert", tail - used + 1, tail - used + 1, o.ret)
          /\ model' = IF o.st = "ok"
                      THEN [model EXCEPT ![tail - used + 1] = tail - used + 1]
                      ELSE model
    /\ tail' = tail + 1
    /\ UNCHANGED <<other, cloned, dropped, fam, used, six, heap, pc, walk, cb, iter>>

NextReinsert == InsertNew \/ RemoveAll \/ Reinsert

SpecReinsert == InitReinsert /\ [][NextReinsert]_vars

\* --------------------------------------------------------- with_capacity
\* The run that builds its table with with_capacity(n) for a request n and
\* then inserts new keys.  last keeps the request.
WithCapacity(n) ==
    /\ last.op = "new" /\ used = 0
    /\ map' = with_capacity(n)
    /\ last' = Call("with_capacity", n, 0, None)
    /\ UNCHANGED <<other, cloned, dropped, model, status, fam, used, tail, six, heap, pc, walk, cb, iter>>

NextCapacity ==
    \/ \E n \in 0..MaxRequest : WithCapacity(n)
    \/ InsertNew

SpecCapacity == Init /\ [][NextCapacity]_vars

\* ------------------------------------------------------------ sixth::Map
\* The run on a sixth::Map: with_capacity(c), then the same calls as on the
\* fifth::Map (first the new keys in order, then at most MaxTail inserts
\* and removes), lookups at every point, and the drop of the map at any
\* point, which ends the run.
InitSixth ==
    /\ map = new /\ other = new /\ cloned = 0 /\ dropped = drop(new)
    /\ model = [k \in Keys |-> None]
    /\ last = Call("new", 0, 0, None)
    /\ status = "ok"
    /\ fam \in 1..NumFams
    /\ used = 0
    /\ tail = 0
    /\ pc = Idle
    /\ walk = NoWalk
    /\ cb = CbHashMap_new
    /\ iter = NoIter
    /\ \E c \in CapRequests :
          /\ six = sixth_with_capacity(NoHeap, c).map
          /\ heap = sixth_with_capacity(NoHeap, c).heap

InsertSixth(k, v) ==
    /\ status = "ok"
    /\ Filling(k, v) \/ (tail < MaxTail /\ k \in CallKeys /\ v \in Values)
    /\ \E o \in {sixth_insert(fam, six, heap, k, v)} :
          /\ six' = o.map /\ heap' = o.heap /\ status' = o.st
          /\ last' = Call("insert", k, v, o.ret)
          /\ model' = IF o.st = "ok" THEN [model EXCEPT ![k] = v] ELSE model
    /\ used' = Max(used, k)
    /\ tail' = IF Filling(k, v) THEN 0 ELSE tail + 1
    /\ UNCHANGED <<map, other, cloned, dropped, fam, pc, walk, cb, iter>>

RemoveSixth(k) ==
    /\ status = "ok"
    /\ tail < MaxTail
    /\ \E o \in {sixth_remove(fam, six, heap, k)} :
          /\ six' = o.map /\ heap' = o.heap /\ status' = o.st
          /\ last' = Call("remove", k, 0, o.ret)
          /\ model' = IF o.st = "ok" THEN [model EXCEPT ![k] = None] ELSE model
    /\ tail' = tail + 1
    /\ UNCHANGED <<map, other, cloned, dropped, fam, used, pc, walk, cb, iter>>

GetSixth(k) ==
    /\ status = "ok"
    /\ \E o \in {sixth_get(fam, six, heap, k)} :
          /\ six' = o.map /\ heap' = o.heap /\ status' = o.st
          /\ last' = Call("get", k, 0, o.ret)
    /\ UNCHANGED <<map, other, cloned, dropped, model, fam, used, tail, pc, walk, cb, iter>>

DropSixth ==
    /\ status = "ok"
    /\ \E o \in {sixth_drop(six, heap)} :
          /\ six' = o.map /\ heap' = o.heap /\ status' = o.st
    /\ last' = Call("drop", 0, 0, None)
    /\ UNCHANGED <<map, other, cloned, dropped, model, fam, used, tail, pc, walk, cb, iter>>

NextSixth ==
    \/ \E k \in Keys, v \in Values \cup {used + 1} : InsertSixth(k, v)
    \/ \E k \in CallKeys : RemoveSixth(k)
    \/ \E k \in CallKeys : GetSixth(k)
    \/ DropSixth

SpecSixth == InitSixth /\ [][NextSixth]_vars

\* ------------------------------------------------- insert, one statement
\* at a time.  The run inserts the new keys in order; each insert is the
\* resize it may need and the probe (InsertProbe), and on the Empty branch
\* of _insert its four statements in the order of the code.  pc keeps the
\* statement executed last and the index and h2 the probe returned.
InsertProbe(k, v) ==
    /\ status = "ok" /\ pc.stmt = "idle"
    /\ Filling(k, v)
    /\ \E r \in {IF needs_resize(map) THEN resize(fam, map) ELSE Outcome(map, None, "ok")} :
       \E p \in {IF r.st = "ok" THEN probe_find(fam, r.map, k) ELSE ProbeUnreachable} :
          IF p.tag = "Empty"
          THEN /\ map' = r.map
               /\ pc' = [stmt |-> "probe_find", index |-> p.index, h2 |-> p.h2,
                         k |-> k, v |-> v]
               /\ UNCHANGED <<status, last, model, used>>
          ELSE /\ \E o \in {_insert(fam, r.map, k, v)} :
                     /\ map' = o.map /\ status' = o.st
                     /\ last' = Call("insert", k, v, o.ret)
                     /\ model' = IF o.st = "ok" THEN [model EXCEPT ![k] = v] ELSE model
               /\ used' = Max(used, k)
               /\ pc' = Idle
    /\ UNCHANGED <<other, cloned, dropped, fam, tail, six, heap, walk, cb, iter>>

\* self.set_metadata(index, metadata::from_h2(h2));
InsertSetMetadata ==
    /\ pc.stmt = "probe_find"
    /\ map' = set_metadata(map, pc.index, from_h2(pc.h2))
    /\ pc' = [pc EXCEPT !.stmt = "set_metadata"]
    /\ UNCHANGED <<other, cloned, dropped, model, last, status, fam, used, tail, six, heap, walk, cb, iter>>

\* self.storage[index].write((k, v));
InsertWrite ==
    /\ pc.stmt = "set_metadata"
    /\ map' = [map EXCEPT !.storage[pc.index + 1] = <<pc.k, pc.v>>]
    /\ pc' = [pc EXCEPT !.stmt = "write"]
    /\ UNCHANGED <<other, cloned, dropped, model, last, status, fam, used, tail, six, heap, walk, cb, iter>>

\* self.n_items += 1;
InsertNItems ==
    /\ pc.stmt = "write"
    /\ map' = [map EXCEPT !.n_items = @ + 1]
    /\ pc' = [pc EXCEPT !.stmt = "n_items"]
    /\ UNCHANGED <<other, cloned, dropped, model, last, status, fam, used, tail, six, heap, walk, cb, iter>>

\* self.n_occupied += 1; None
InsertNOccupied ==
    /\ pc.stmt = "n_items"
    /\ map' = [map EXCEPT !.n_occupied = @ + 1]
    /\ pc' = Idle
    /\ last' = Call("insert", pc.k, pc.v, None)
    /\ model' = [model EXCEPT ![pc.k] = pc.v]
    /\ used' = Max(used, pc.k)
    /\ UNCHANGED <<other, cloned, dropped, status, fam, tail, six, heap, walk, cb, iter>>

NextInsert ==
    \/ \E k \in Keys : InsertProbe(k, k)
    \/ InsertSetMetadata
    \/ InsertWrite
    \/ InsertNItems
    \/ InsertNOccupied

SpecInsert == Init /\ [][NextInsert]_vars

\* ------------------------------------------------- the loop of probe_find
\* The loop of probe_find on its own, for a capacity and a home bucket:
\* iteration step moves current and loads the group that starts there.  The
\* loop is walked to its end, as for a key the table does not hold and a
\* table without an EMPTY byte.
InitProbe ==
    /\ map = new /\ other = new /\ cloned = 0 /\ dropped = drop(new)
    /\ model = [k \in Keys |-> None]
    /\ last = Call("new", 0, 0, None)
    /\ status = "ok"
    /\ fam = 1
    /\ used = 0
    /\ tail = 0
    /\ six = sixth_new(NoHeap).map
    /\ heap = NoHeap
    /\ pc = Idle
    /\ cb = CbHashMap_new
    /\ iter = NoIter
    /\ \E d \in 0..MaxDoublings : \E h \in 0..(GROUP_SIZE * Pow2[d + 1] - 1) :
          walk = [capacity |-> GROUP_SIZE * Pow2[d + 1], home |-> h, step |-> 0,
                  current |-> h, seen |-> {}]

ProbeAdvance ==
    /\ walk.step < walk.capacity
    /\ \E c \in {probe_advance(walk.current, walk.step, walk.capacity)} :
          walk' = [walk EXCEPT !.current = c, !.step = @ + 1, !.seen = @ \cup {c}]
    /\ UNCHANGED <<map, other, cloned, dropped, model, last, status, fam, used, tail,
                   six, heap, pc, cb, iter>>

SpecProbe == InitProbe /\ [][ProbeAdvance]_vars

\* -------------------------------------------------------------- CbHashMap
\* The same runs on a CbHashMap: new keys in order, then at most MaxTail
\* inserts and removes of the keys in CallKeys, lookups at any time.  A call
\* that panics or never returns ends the run.
InitCb ==
    /\ map = new /\ other = new /\ cloned = 0 /\ dropped = drop(new)
    /\ model = [k \in Keys |-> None]
    /\ last = Call("new", 0, 0, None)
    /\ status = "ok"
    /\ fam \in 1..NumFams
    /\ used = 0
    /\ tail = 0
    /\ six = sixth_new(NoHeap).map
    /\ heap = NoHeap
    /\ pc = Idle
    /\ walk = NoWalk
    /\ iter = NoIter
    /\ \E c \in CapRequests : cb = CbHashMap_with_capacity(c)

InsertCb(k, v) ==
    /\ status = "ok"
    /\ Filling(k, v) \/ (tail < MaxTail /\ k \in CallKeys /\ v \in Values)
    /\ \E o \in {CbHashMap_insert(fam, cb, k, v)} :
          /\ cb' = o.map /\ status' = o.st
          /\ last' = Call("insert", k, v, o.ret)
          /\ model' = IF o.st = "ok" THEN [model EXCEPT ![k] = v] ELSE model
    /\ used' = Max(used, k)
    /\ tail' = IF Filling(k, v) THEN 0 ELSE tail + 1
    /\ UNCHANGED <<map, other, cloned, dropped, fam, six, heap, pc, walk, iter>>

RemoveCb(k) ==
    /\ status = "ok"
    /\ tail < MaxTail
    /\ \E o \in {CbHashMap_remove(fam, cb, k)} :
          /\ cb' = o.map /\ status' = o.st
          /\ last' = Call("remove", k, 0, o.ret)
          /\ model' = IF o.st = "ok" THEN [model EXCEPT ![k] = None] ELSE model
    /\ tail' = tail + 1
    /\ UNCHANGED <<map, other, cloned, dropped, fam, used, six, heap, pc, walk, iter>>

GetCb(k) ==
    /\ status = "ok"
    /\ \E o \in {CbHashMap_get(fam, cb, k)} :
          /\ cb' = o.map /\ status' = o.st
          /\ last' = Call("get", k, 0, o.ret)
    /\ UNCHANGED <<map, other, cloned, dropped, model, fam, used, tail, six, heap, pc, walk, iter>>

GetMutCb(k) ==
    /\ status = "ok"
    /\ \E o \in {CbHashMap_get_mut(fam, cb, k)} :
          /\ cb' = o.map /\ status' = o.st
          /\ last' = Call("get_mut", k, 0, o.ret)
    /\ UNCHANGED <<map, other, cloned, dropped, model, fam, used, tail, six, heap, pc, walk, iter>>

NextCb ==
    \/ \E k \in Keys, v \in Values \cup {used + 1} : InsertCb(k, v)
    \/ \E k \in CallKeys : RemoveCb(k)
    \/ \E k \in CallKeys : GetCb(k)
    \/ \E k \in CallKeys : GetMutCb(k)

SpecCb == InitCb /\ [][NextCb]_vars

\* The run of tests::remove_and_reinsert of lib.rs: from new(), insert the
\* keys 1 .. used (key k with value k), remove them all in the same order,
\* then insert them again.  tail counts the calls after the first inserts.
InitCbReinsert == InitCb /\ cb = CbHashMap_new

InsertNewCb ==
    /\ tail = 0
    /\ \E k \in Keys : k = used + 1 /\ InsertCb(k, k)

RemoveAllCb ==
    /\ status = "ok"
    /\ tail < used
    /\ \E o \in {CbHashMap_remove(fam, cb, tail + 1)} :
          /\ cb' = o.map /\ status' = o.st
          /\ last' = Call("remove", tail + 1, 0, o.ret)
          /\ model' = IF o.st = "ok" THEN [model EXCEPT ![tail + 1] = None] ELSE model
    /\ tail' = tail + 1
    /\ UNCHANGED <<map, other, cloned, dropped, fam, used, six, heap, pc, walk, iter>>

ReinsertCb ==
    /\ status = "ok"
    /\ used <= tail /\ tail < 2 * used
    /\ \E o \in {CbHashMap_insert(fam, cb, tail - used + 1, tail - used + 1)} :
          /\ cb' = o.map /\ status' = o.st
          /\ last' = Call("insert", tail - used + 1, tail - used + 1, o.ret)
          /\ model' = IF o.st = "ok"
                      THEN [model EXCEPT ![tail - used + 1] = tail - used + 1]
                      ELSE model
    /\ tail' = tail + 1
    /\ UNCHANGED <<map, other, cloned, dropped, fam, used, six, heap, pc, walk, iter>>

NextCbReinsert == InsertNewCb \/ RemoveAllCb \/ ReinsertCb

SpecCbReinsert == InitCbReinsert /\ [][NextCbReinsert]_vars

\* ---------------------------------------------------------------- MaskIter
\* MaskIter::forward(mask) and MaskIter::reverse(mask) on their own: the
\* iterator is built on a mask and next() is called until it returns None.
Masks ==
    {lo + hi * Pow2[16 - HighLanes + 1] : lo \in 0..(Pow2[LowLanes + 1] - 1),
                                          hi \in 0..(Pow2[HighLanes + 1] - 1)}

InitMask ==
    /\ map = new /\ other = new /\ cloned = 0 /\ dropped = drop(new)
    /\ model = [k \in Keys |-> None]
    /\ status = "ok"
    /\ fam = 1
    /\ used = 0
    /\ tail = 0
    /\ six = sixth_new(NoHeap).map
    /\ heap = NoHeap
    /\ pc = Idle
    /\ walk = NoWalk
    /\ cb = CbHashMap_new
    /\ last \in {Call("forward", 0, 0, None), Call("reverse", 0, 0, None)}
    /\ \E mask \in Masks :
          iter = [mask |-> mask, inner |-> mask, yielded |-> << >>, ended |-> FALSE]

\* one call of next(), which returns <<item, inner afterwards>>
ForwardNext ==
    /\ last.op = "forward" /\ ~iter.ended
    /\ \E r \in {forward_next(iter.inner)} :
          iter' = IF r[1] = GROUP_SIZE THEN [iter EXCEPT !.ended = TRUE]
                  ELSE [iter EXCEPT !.inner = r[2], !.yielded = Append(@, r[1])]
    /\ UNCHANGED <<map, other, cloned, dropped, model, last, status, fam, used, tail,
                   six, heap, pc, walk, cb>>

ReverseNext ==
    /\ last.op = "reverse" /\ ~iter.ended
    /\ \E r \in {reverse_next(iter.inner)} :
          iter' = IF r[1] = GROUP_SIZE THEN [iter EXCEPT !.ended = TRUE]
                  ELSE [iter EXCEPT !.inner = r[2], !.yielded = Append(@, r[1])]
    /\ UNCHANGED <<map, other, cloned, dropped, model, last, status, fam, used, tail,
                   six, heap, pc, walk, cb>>

NextMask == ForwardNext \/ ReverseNext

SpecMask == InitMask /\ [][NextMask]_vars

\* --------------------------------------------------------------- properties
Bucket(m) == 0..(n_buckets(m) - 1)

\* what get(&k) gives on table m: <<returned value, how it ended>>
Looked(m, k) == LET o == get(fam, m, k) IN <<o.ret, o.st>>

\* key k is present in m: get(&k) returns a value
Present(m, k) == LET o == get(fam, m, k) IN o.st = "ok" /\ o.ret # None

\* the buckets of m that store key k
Holders(m, k) == {i \in Bucket(m) : is_full(m.metadata[i + 1]) /\ m.storage[i + 1][1] = k}

\* I2: the last sixteen metadata bytes repeat the first sixteen
Mirror(m) ==
    n_buckets(m) > 0 =>
        \A i \in 1..GROUP_SIZE : m.metadata[n_buckets(m) + i] = m.metadata[i]

\* I3: a slot holds a pair exactly when its metadata byte is FULL
Initialized(m) ==
    \A i \in Bucket(m) : (m.storage[i + 1] # Uninit) <=> is_full(m.metadata[i + 1])

\* I4: the two counters count the FULL and the non-EMPTY bytes
Counting(m) ==
    /\ m.n_items = Cardinality({i \in Bucket(m) : is_full(m.metadata[i + 1])})
    /\ m.n_occupied = Cardinality({i \in Bucket(m) : ~is_empty(m.metadata[i + 1])})

\* I7: the probe for every stored key arrives at the bucket that stores it
ProbeComplete(m) ==
    \A i \in Bucket(m) :
        is_full(m.metadata[i + 1]) =>
            probe_find(fam, m, m.storage[i + 1][1]) = ProbeFull(i)

\* no key is stored in two buckets
NoDuplicate(m) ==
    \A i \in Bucket(m) :
        is_full(m.metadata[i + 1]) => Holders(m, m.storage[i + 1][1]) = {i}

\* C1 (round trip): after the new keys k1 .. kn have been inserted and
\* nothing else has changed the table, get(ki) returns vi for every i and
\* len() = n, whatever the hashes and across every resize on the way.
RoundTrip_C1 ==
    (status = "ok" /\ cloned = 0 /\ tail = 0) =>
        /\ len(map) = used
        /\ \A k \in 1..used : Looked(map, k) = <<k, "ok">>

Witness_C1 ==
    /\ status = "ok" /\ cloned = 0 /\ tail = 0
    /\ fam = 1 /\ used = 33 /\ n_buckets(map) = 64
    /\ Looked(map, 17) = <<17, "ok">>

RemoveThenMiss_C3 ==
    [][(last'.op = "remove" /\ Present(cur, last'.k)) =>
          /\ status' = "ok"
          /\ last'.ret = get(fam, cur, last'.k).ret
          /\ cur'.n_items = cur.n_items - 1
          /\ Looked(cur', last'.k) = <<None, "ok">>]_vars

\* C4 (remove leaves the other keys alone): after remove(k), get(k2)
\* returns what it returned before, for every other key k2 that was
\* present (every stored key that get found), whether the bucket became
\* EMPTY or a TOMBSTONE.
RemoveKeepsOthers_C4 ==
    [][(last'.op = "remove" /\ status' = "ok" /\ cur' # cur) =>
          \A i \in Bucket(cur) :
              (is_full(cur.metadata[i + 1]) /\ cur.storage[i + 1][1] # last'.k) =>
                  LET k2 == cur.storage[i + 1][1]
                      before == get(fam, cur, k2)
                      after == get(fam, cur', k2)
                  IN  (before.st = "ok" /\ before.ret # None) =>
                          (after.st = "ok" /\ after.ret = before.ret)]_vars

Witness_C4 ==
    /\ status = "ok" /\ last.op = "remove" /\ last.ret # None
    /\ \E i \in Bucket(cur) : cur.metadata[i + 1] = tombstone
    /\ \E k2 \in Keys \ {last.k} : Present(cur, k2) /\ Cardinality(Holders(cur, k2)) = 1

\* C5 (probe exhaustion is unreachable): no call ever runs probe_find to
\* its unreachable!().
NoExhaustion_C5 == status # "unreachable"

\* C6 (load factor): after every completed insert
\* 8 * n_occupied <= 7 * capacity.
LoadFactor_C6 ==
    (status = "ok" /\ last.op = "insert") => 8 * cur.n_occupied <= 7 * n_buckets(cur)

\* C7 (clone has the same contents): right after m.clone(), get(k) on the
\* clone returns what get(k) returns on m, for every key, and the two
\* lengths agree.
CloneSame_C7 ==
    (status = "ok" /\ last.op = "clone") =>
        /\ len(other) = len(map)
        /\ \A k \in Keys : Looked(other, k) = Looked(map, k)

\* C8 (clone independence): a call on the clone leaves the source table as
\* it was, and the clone satisfies I2, I3, I4, I7 and holds no key twice
\* after it.
CloneIndependent_C8 ==
    [][(cloned = 1 /\ cloned' = 1 /\ status' = "ok") =>
          (/\ map' = map
           /\ Mirror(other') /\ Initialized(other') /\ Counting(other')
           /\ ProbeComplete(other') /\ NoDuplicate(other'))]_vars

\* C9 (clone panic safety): when clone() panics at the pair of some bucket,
\* the FULL bytes of the table built so far are exactly the buckets cloned
\* and written (those before it that are FULL in the source), its drop
\* destroys exactly those pairs and reads no slot without a pair, and the
\* source table is unchanged.
ClonePanicSafe_C9 ==
    [][status' = "clone_panic" =>
          \E stop \in {bucket_of(map, last'.k)} :
              /\ map' = map
              /\ Mirror(other')
              /\ \A i \in Bucket(map) :
                    IF i < stop /\ is_full(map.metadata[i + 1])
                    THEN /\ other'.metadata[i + 1] = map.metadata[i + 1]
                         /\ other'.storage[i + 1] = map.storage[i + 1]
                         /\ i \in DOMAIN dropped'
                         /\ dropped'[i] = map.storage[i + 1]
                         /\ dropped'[i] # Uninit
                    ELSE /\ ~is_full(other'.metadata[i + 1])
                         /\ other'.storage[i + 1] = Uninit
                         /\ i \notin DOMAIN dropped']_vars

Witness_C9 ==
    /\ status = "clone_panic"
    /\ DOMAIN dropped # {}
    /\ other.n_items < map.n_items
    /\ \E i \in Bucket(map) : map.metadata[i + 1] = tombstone

\* C10 (clone keeps the capacity): with_capacity(c) gives exactly c for
\* every capacity c a table has, so the assert_eq! of clone() never fails
\* and the clone has the capacity of its source.
CloneCapacity_C10 ==
    /\ status # "assert"
    /\ n_buckets(with_capacity(n_buckets(cur))) = n_buckets(cur)
    /\ (status = "ok" /\ last.op = "clone") => n_buckets(other) = n_buckets(map)

Witness_C10 ==
    /\ status = "ok" /\ last.op = "clone"
    /\ n_buckets(map) = 64 /\ n_buckets(other) = 64


\* the capacities I5 allows
IsCapacity(n) == n = 0 \/ (n >= GROUP_SIZE /\ \E j \in 1..Len(Pow2) : n = Pow2[j])

\* C11 (I3, initialization): between any two calls, in the table and in
\* every table clone() has produced (the abandoned one of a panicking clone
\* included), the slot of a bucket holds a pair exactly when the metadata
\* byte of the bucket is FULL.
Initialization_C11 ==
    Initialized(map) /\ (cloned # 0 => Initialized(other))

\* a remove has emptied a slot of a table that stores other pairs
Witness_C11 ==
    /\ status = "ok" /\ last.op = "remove" /\ last.ret # None
    /\ cur.n_items >= 2
    /\ \E i \in Bucket(cur) : cur.storage[i + 1] = Uninit /\ cur.metadata[i + 1] = tombstone

\* C12 (I2, mirror): in every reachable state of a table of capacity > 0,
\* after insert, remove, resize and clone, metadata[capacity + i] =
\* metadata[i] for every i in 0..15.
MirrorInvariant_C12 ==
    /\ n_buckets(map) > 0 => Mirror(map)
    /\ (cloned # 0 /\ n_buckets(other) > 0) => Mirror(other)

\* a bucket of the first group of a table of capacity 32 was written by the
\* last call and its byte is not EMPTY
Witness_C12 ==
    /\ status = "ok" /\ last.op \in {"insert", "remove"}
    /\ n_buckets(cur) = 32
    /\ \E i \in 0..(GROUP_SIZE - 1) :
          /\ ~is_empty(cur.metadata[i + 1])
          /\ cur.metadata[32 + i + 1] = cur.metadata[i + 1]
    /\ \E i \in GROUP_SIZE..31 : is_full(cur.metadata[i + 1])

\* C13 (I4, counting): n_items is the number of FULL metadata bytes and
\* n_occupied the number of non-EMPTY ones, hence n_items <= n_occupied <=
\* capacity.
Counting_C13 ==
    /\ Counting(map) /\ map.n_items <= map.n_occupied /\ map.n_occupied <= n_buckets(map)
    /\ cloned # 0 =>
          /\ Counting(other)
          /\ other.n_items <= other.n_occupied /\ other.n_occupied <= n_buckets(other)

\* a table with a tombstone: n_occupied counts it, n_items does not
Witness_C13 ==
    /\ status = "ok" /\ cur.n_items > 0 /\ cur.n_items < cur.n_occupied
    /\ \E i \in Bucket(cur) : cur.metadata[i + 1] = tombstone


\* The probe sequence of key k in table m: where the group window of
\* iteration s starts, the lane of bucket i in that window (GROUP_SIZE and
\* more: not in the window), and the first iteration whose window has i
probe_start(m, k, s) ==
    fast_rem(bucket_index_and_h2(fam, m, k)[1] + GROUP_SIZE * ((s * (s + 1)) \div 2),
             n_buckets(m))

probe_lane(m, k, s, i) == fast_rem(i + n_buckets(m) - probe_start(m, k, s), n_buckets(m))

probe_reaches(m, k, i) ==
    CHOOSE s \in 0..(n_buckets(m) - 1) :
        /\ probe_lane(m, k, s, i) < GROUP_SIZE
        /\ \A t \in 0..(s - 1) : probe_lane(m, k, t, i) >= GROUP_SIZE

\* the lanes 0 .. upto - 1 of the window of iteration s hold no EMPTY byte
NoEmptyLane(m, k, s, upto) ==
    \A j \in 0..(upto - 1) : ~is_empty(m.metadata[probe_start(m, k, s) + j + 1])

\* no window the probe of a stored key visits before the window that has
\* its bucket holds an EMPTY byte
NoEmptyWindowBefore(m) ==
    \A i \in Bucket(m) :
        is_full(m.metadata[i + 1]) =>
            \A s \in 0..(probe_reaches(m, m.storage[i + 1][1], i) - 1) :
                NoEmptyLane(m, m.storage[i + 1][1], s, GROUP_SIZE)

\* nor does an EMPTY byte come before the bucket in the window that has it
NoEmptyLaneBefore(m) ==
    \A i \in Bucket(m) :
        is_full(m.metadata[i + 1]) =>
            \E s \in {probe_reaches(m, m.storage[i + 1][1], i)} :
                NoEmptyLane(m, m.storage[i + 1][1], s,
                            probe_lane(m, m.storage[i + 1][1], s, i))

CapacityShape_C15 ==
    /\ IsCapacity(n_buckets(map)) /\ IsCapacity(n_buckets(other))
    /\ \A c \in 0..MaxRequest : IsCapacity(n_buckets(with_capacity(c)))

\* the insert of the 33rd key has just resized the table from 32 buckets
\* to 64
Witness_C15 ==
    /\ status = "ok" /\ last.op = "insert" /\ cloned = 0 /\ tail = 0
    /\ map.n_items = map.n_occupied /\ map.n_items = used
    /\ used = 33 /\ n_buckets(map) = 64


\* C16 (capacity is monotone): no call makes the capacity of a map smaller,
\* and remove, get, get_mut and len leave it as it is (only insert, through
\* resize, changes it).
CapacityMonotone_C16 ==
    [][ /\ n_buckets(map') >= n_buckets(map)
        /\ cloned = 1 => n_buckets(other') >= n_buckets(other)
        /\ (\/ last'.op = "remove" /\ tail' = tail + 1
            \/ tail' = tail /\ used' = used /\ cloned' = cloned)
           => /\ n_buckets(map') = n_buckets(map)
              /\ n_buckets(other') = n_buckets(other) ]_vars

\* a remove has taken the last pair out of a table and the table keeps its
\* sixteen buckets
Witness_C16 ==
    /\ status = "ok" /\ last.op = "remove" /\ last.ret # None
    /\ len(cur) = 0 /\ cur.n_occupied = 0 /\ n_buckets(cur) = GROUP_SIZE


\* C17 (reinsert after full deletion): from new(), after N distinct keys
\* have been inserted (capacity C), removing all N keeps capacity C, and
\* inserting the same N keys again ends with len() = N and capacity C: no
\* remove and no insert of the second round changes the capacity.
ReinsertKeepsCapacity_C17 ==
    [][ tail' > 0 =>
          /\ status' = "ok"
          /\ n_buckets(map') = n_buckets(map)
          /\ tail' = used' => len(map') = 0
          /\ tail' = 2 * used' => len(map') = used' ]_vars


\* the pairs a drop of the table destroys, given the slots it visits
Destroyed(d) == {d[i] : i \in DOMAIN d}

\* C19 (every pair is destroyed exactly once): over any sequence of insert
\* (with its resizes) and remove on a table, a drop at any point visits
\* only slots that hold a pair and destroys no pair twice, and the pairs it
\* would destroy are those moved in and not handed back: an insert of a new
\* key adds its pair, an overwrite puts the new value in the place of the
\* old one and hands the old one back, a remove takes the pair out and
\* hands its value back, and a resize, a lookup or a failed call changes
\* nothing.
PairsOnce_C19 ==
    [][ cloned' = 0 =>
          \E d \in {drop(map)}, e \in {drop(map')} :
             /\ Uninit \notin Destroyed(e)
             /\ Cardinality(Destroyed(e)) = Cardinality(DOMAIN e)
             /\ \A i \in DOMAIN e : is_full(map'.metadata[i + 1])
             /\ IF status' = "ok" /\ last'.op = "insert" /\ <<used', tail'>> # <<used, tail>>
                THEN /\ Destroyed(e) = (Destroyed(d) \ {<<last'.k, last'.ret>>})
                                            \cup {<<last'.k, last'.v>>}
                     /\ last'.ret # None => <<last'.k, last'.ret>> \in Destroyed(d)
                     /\ last'.ret = None => \A p \in Destroyed(d) : p[1] # last'.k
                ELSE IF status' = "ok" /\ last'.op = "remove" /\ tail' = tail + 1
                THEN /\ Destroyed(e) = Destroyed(d) \ {<<last'.k, last'.ret>>}
                     /\ last'.ret # None => <<last'.k, last'.ret>> \in Destroyed(d)
                     /\ last'.ret = None => \A p \in Destroyed(d) : p[1] # last'.k
                ELSE Destroyed(e) = Destroyed(d) ]_vars

\* after 32 keys filled the 32 buckets, a remove has left a TOMBSTONE and
\* the insert that followed has resized the table to 64 buckets: every pair
\* was moved, none is lost
Witness_C19 ==
    /\ status = "ok" /\ cloned = 0 /\ last.op = "insert" /\ tail > 0
    /\ used = 32 /\ n_buckets(map) = 64
    /\ map.n_items = 32 /\ map.n_occupied = 32


\* C18 (capacity policy of with_capacity): a request of 0 gives capacity 0
\* and no allocation, a request of 1..15 gives 16, and a request n >= 16
\* gives the smallest power of two >= n (a power of two is kept as it is):
\* for CbHashMap, fourth::Map and fifth::Map.
CapacityPolicy_C18 ==
    last.op = "with_capacity" =>
        \A capacity \in {CbHashMap_capacity(last.k), fourth_capacity(last.k), n_buckets(map)} :
            IF last.k = 0 THEN capacity = 0
            ELSE IF last.k < 16 THEN capacity = 16
            ELSE /\ capacity >= last.k
                 /\ \E j \in 1..Len(Pow2) : capacity = Pow2[j]
                 /\ \A j \in 1..Len(Pow2) : Pow2[j] >= last.k => capacity <= Pow2[j]


\* C20 (allocation balance of sixth::Map): at every point a map owns
\* exactly one live heap block if n_buckets > 0 and none if n_buckets = 0;
\* new() allocates nothing; resize frees the old block exactly once, and
\* nothing when the old capacity was 0; drop frees the current block exactly
\* once and nothing for an empty map; no deallocate is ever given a
\* dangling pointer or a block that is not live.
AllocationBalance_C20 ==
    /\ [](/\ ~heap.invalid
          /\ status # "dropped" =>
                /\ six.n_buckets > 0 => heap.live = {<<six.block, six.n_buckets>>}
                /\ six.n_buckets = 0 =>
                      heap.live = {} /\ six.block = dangling /\ heap.allocated = 0
          /\ status = "dropped" => heap.live = {} /\ heap.freed = heap.allocated)
    /\ [][ IF six'.n_buckets # six.n_buckets
           THEN /\ heap'.allocated = heap.allocated + 1
                /\ heap'.freed = heap.freed + (IF six.n_buckets > 0 THEN 1 ELSE 0)
           ELSE IF status' = "dropped"
           THEN /\ heap'.allocated = heap.allocated
                /\ heap'.freed = heap.freed + (IF six.n_buckets > 0 THEN 1 ELSE 0)
           ELSE heap' = heap ]_vars

\* a map that has resized from 0 to 16, to 32 and to 64 buckets has been
\* dropped: three blocks were allocated and three freed
Witness_C20 ==
    /\ status = "dropped" /\ six.n_buckets = 64
    /\ heap.allocated = 3 /\ heap.freed = 3 /\ heap.live = {}


\* C21 (calls on a capacity-0 table are total): on a table made by new(),
\* with nothing inserted yet, get, get_mut and remove of any key return None
\* without panicking and leave the capacity at 0; only insert makes the
\* table grow, to 16.
CapacityZeroTotal_C21 ==
    [][ (n_buckets(cur) = 0 /\ used = 0 /\ status = "ok") =>
          /\ status' = "ok"
          /\ last'.ret = None
          /\ IF last'.op = "insert" /\ used' # used
             THEN n_buckets(cur') = GROUP_SIZE
             ELSE n_buckets(cur') = 0 ]_vars


\* C22 (lookups are read-only): get, get_mut (the reference not written
\* through), len and is_empty leave metadata, storage, n_items, n_occupied
\* and the capacity of the table as they are, for present and absent keys,
\* also when the lookup panics.
LookupsReadOnly_C22 ==
    [][ (tail' = tail /\ used' = used /\ cloned' = cloned) =>
          /\ map' = map /\ other' = other
          /\ len(cur') = len(cur) /\ map_is_empty(cur') = map_is_empty(cur) ]_vars

\* a table with a TOMBSTONE where a lookup finds a present key and misses
\* an absent one
Witness_C22 ==
    /\ status = "ok" /\ tail > 0
    /\ \E i \in Bucket(cur) : cur.metadata[i + 1] = tombstone
    /\ Looked(cur, 1) = <<model[1], "ok">> /\ model[1] # None
    /\ \E k \in CallKeys : model[k] = None /\ Looked(cur, k) = <<None, "ok">>


\* C23 (resize trigger): needs_resize() is true exactly when the capacity is
\* 0 or 8 * n_occupied > 7 * capacity, for every table the calls reach
\* (n_occupied counts the tombstones).
ResizeTrigger_C23 ==
    \A m \in {map, other} :
        needs_resize(m) <=> (n_buckets(m) = 0 \/ 8 * m.n_occupied > 7 * n_buckets(m))


\* what resize makes of table m
ResizeEffect(m) ==
    \E o \in {resize(fam, m)} :
        /\ o.st = "ok"
        /\ n_buckets(o.map) = IF n_buckets(m) = 0 THEN 16 ELSE 2 * n_buckets(m)
        /\ Destroyed(drop(o.map)) = Destroyed(drop(m))
        /\ o.map.n_items = m.n_items
        /\ o.map.n_occupied = o.map.n_items
        /\ \A i \in Bucket(o.map) : o.map.metadata[i + 1] # tombstone
        /\ Counting(o.map)
        /\ 8 * o.map.n_occupied <= 7 * n_buckets(o.map)

\* C24 (effect of resize): the capacity becomes 16 if it was 0 and doubles
\* otherwise; the live pairs and n_items are the same as before, every old
\* tombstone is gone (n_occupied = n_items), the mirror tail of the old
\* metadata gives no extra pair, and 8 * n_occupied <= 7 * capacity holds
\* when resize returns: for every table the calls reach.
ResizeEffect_C24 ==
    ResizeEffect(map) /\ (cloned = 1 => ResizeEffect(other))


\* C25 (insert ordering): on the Empty(idx, h2) branch of insert the pair is
\* written into storage[idx] first and metadata[idx] is set to FULL(h2) only
\* afterwards: at no intermediate step of insert is metadata[idx] FULL while
\* storage[idx] holds no pair.
InsertOrder_C25 ==
    pc.stmt # "idle" =>
        ~(is_full(map.metadata[pc.index + 1]) /\ map.storage[pc.index + 1] = Uninit)


\* the lanes j of the sixteen buckets that start at bucket b (cyclically)
\* whose byte is EMPTY
EmptyLanes(m, b) ==
    {j \in 0..(GROUP_SIZE - 1) : m.metadata[((b + n_buckets(m) + j) % n_buckets(m)) + 1] = EMPTY}

\* C26 (tombstone or empty): when remove frees bucket idx, with next_empty
\* the first EMPTY lane of the 16 bytes starting at idx (16 if none) and
\* last_empty the last EMPTY lane of the 16 bytes starting at
\* (idx - 16) mod capacity (0 if none), the bucket becomes EMPTY and
\* n_occupied goes down by one iff capacity = 16 or
\* next_empty + 16 - last_empty < 16; otherwise it becomes TOMBSTONE and
\* n_occupied stays.
TombstoneOrEmpty_C26 ==
    [][ (status' = "ok" /\ last'.op = "remove" /\ tail' = tail + 1 /\ last'.ret # None) =>
          \E idx \in {i \in Bucket(cur) : cur'.storage[i + 1] # cur.storage[i + 1]} :
          \E next_empty \in {IF EmptyLanes(cur, idx) = {} THEN GROUP_SIZE
                             ELSE CHOOSE j \in EmptyLanes(cur, idx) :
                                      \A i \in EmptyLanes(cur, idx) : j <= i} :
          \E last_empty \in {IF EmptyLanes(cur, idx - GROUP_SIZE) = {} THEN 0
                             ELSE CHOOSE j \in EmptyLanes(cur, idx - GROUP_SIZE) :
                                      \A i \in EmptyLanes(cur, idx - GROUP_SIZE) : j >= i} :
             IF n_buckets(cur) = 16 \/ next_empty + 16 - last_empty < 16
             THEN /\ cur'.metadata[idx + 1] = EMPTY
                  /\ cur'.n_occupied = cur.n_occupied - 1
             ELSE /\ cur'.metadata[idx + 1] = TOMBSTONE
                  /\ cur'.n_occupied = cur.n_occupied ]_vars

\* in a table of 32 buckets that stores pairs, a remove has given its
\* bucket back as EMPTY
Witness_C26 ==
    /\ status = "ok" /\ last.op = "remove" /\ last.ret # None
    /\ n_buckets(cur) = 32 /\ cur.n_items >= 3
    /\ cur.n_occupied = cur.n_items /\ cur.n_items = used - 1


\* C27 (reclamation is invisible to probes): whenever remove sets bucket idx
\* to EMPTY in a table of capacity > 16, every window of 16 cyclically
\* consecutive buckets that contains idx also contains another bucket that
\* is EMPTY.
SafeReclamation_C27 ==
    [][ (status' = "ok" /\ last'.op = "remove" /\ tail' = tail + 1 /\ last'.ret # None
         /\ n_buckets(cur) > GROUP_SIZE) =>
          \A idx \in {i \in Bucket(cur) : cur'.storage[i + 1] # cur.storage[i + 1]} :
             cur'.metadata[idx + 1] = EMPTY =>
                \A s \in 0..(GROUP_SIZE - 1) :
                   \E j \in EmptyLanes(cur, idx - s) : j # s ]_vars

\* in a table of 64 buckets a remove has given its bucket back as EMPTY
Witness_C27 ==
    /\ status = "ok" /\ last.op = "remove" /\ last.ret # None
    /\ n_buckets(cur) = 64 /\ cur.n_items >= 3
    /\ cur.n_occupied = cur.n_items /\ cur.n_items = used - 1


\* C28 (earlier probe windows stay non-empty): in every state of a table
\* reached by insert, remove and resize, for every live key k stored at
\* bucket i0, no group window of the probe sequence of k that comes strictly
\* before the first window containing i0 has an EMPTY byte, so a probe for k
\* never stops at an EMPTY lane before it reaches the window that holds k.
EarlierWindows_C28 ==
    /\ NoEmptyWindowBefore(map)
    /\ \A i \in Bucket(map) :
          is_full(map.metadata[i + 1]) =>
              probe_find(fam, map, map.storage[i + 1][1]).tag # "Empty"

\* after a remove has left a TOMBSTONE, an insert has stored a key past the
\* first window of its probe
Witness_C28 ==
    /\ status = "ok" /\ cloned = 0 /\ last.op = "insert" /\ last.ret = None /\ tail = 2
    /\ \E i \in Bucket(map) : map.metadata[i + 1] = tombstone
    /\ \E i \in Bucket(map) :
          /\ is_full(map.metadata[i + 1]) /\ map.storage[i + 1][1] = last.k
          /\ probe_reaches(map, last.k, i) >= 1


\* C29 (the probe sequence covers all groups before repeating): for every
\* capacity C that is a power of two >= 16, G = C / 16 and every home h, the
\* window starts of the iterations 0 .. G - 1 of probe_find are
\* (h + 16 * (0 + 1 + .. + k)) mod C and pairwise distinct, so the first G
\* windows together cover every bucket of the table.
ProbeCoversGroups_C29 ==
    /\ walk.step >= 1 =>
          walk.current = (walk.home + GROUP_SIZE * (((walk.step - 1) * walk.step) \div 2))
                            % walk.capacity
    /\ walk.step <= walk.capacity \div GROUP_SIZE => Cardinality(walk.seen) = walk.step
    /\ (walk.capacity > 0 /\ walk.step >= walk.capacity \div GROUP_SIZE) =>
          {(s + j) % walk.capacity : s \in walk.seen, j \in 0..(GROUP_SIZE - 1)}
              = 0..(walk.capacity - 1)

\* the loop has made the G = 4 iterations of a table of 64 buckets from a
\* home that is not the start of a group
Witness_C29 ==
    /\ walk.capacity = 64 /\ walk.step = 4 /\ walk.home % GROUP_SIZE = 14
    /\ Cardinality(walk.seen) = 4


\* C30 (probe bound): in every reachable state of a fifth::Map, the probe
\* that get, get_mut or remove of a key starts on the table, and the probe
\* that insert starts on the table it has after its resize check, returns
\* within the first capacity / 16 iterations of the loop of probe_find, that
\* is after loading at most capacity / 16 metadata groups.
ProbeBound_C30 ==
    (status = "ok" /\ cloned # 2) =>
       \A k \in CallKeys :
          LET bounded(m) ==
                 probe_loop(m, k, bucket_index_and_h2(fam, m, k)[2],
                            [current |-> bucket_index_and_h2(fam, m, k)[1],
                             res |-> ProbeUnreachable],
                            0, n_buckets(m) \div GROUP_SIZE).res
          IN  /\ bounded(cur).tag # "Unreachable"
              /\ needs_resize(cur) /\ resize(fam, cur).st = "ok"
                    => bounded(resize(fam, cur).map).tag # "Unreachable"


\* The storage reads of table m.  The candidate loop of probe_find reads
\* the slot of bucket (current + lane) mod capacity for every lane whose
\* byte in the group loaded at current equals h2 (the bytes at positions
\* >= capacity are the replicated ones); resize, clone and drop read the
\* slot of every bucket whose own byte is FULL.  Every slot read holds a
\* pair and has a FULL byte at its own index.
ReadsUnderFull(m) ==
    /\ \A s \in Bucket(m) : \A lane \in 0..(GROUP_SIZE - 1) :
          \A h2 \in {from_slice(m.metadata, s)[lane + 1]} \cap (0..MASK) :
             to_candidates(from_slice(m.metadata, s), h2)[lane + 1] =>
                /\ is_full(m.metadata[fast_rem(s + lane, n_buckets(m)) + 1])
                /\ m.storage[fast_rem(s + lane, n_buckets(m)) + 1] # Uninit
    /\ \A i \in DOMAIN drop(m) : is_full(m.metadata[i + 1]) /\ drop(m)[i] # Uninit
    /\ \A i \in Bucket(m) :
          to_fulls(from_slice(m.metadata, (i \div GROUP_SIZE) * GROUP_SIZE))[(i % GROUP_SIZE) + 1]
             => is_full(m.metadata[i + 1]) /\ m.storage[i + 1] # Uninit

\* C31 (storage is read only under FULL metadata): in every reachable
\* state, of the table and of its clone, every slot that probe_find, get,
\* get_mut, remove, resize, clone or drop reads has a FULL byte at its own
\* index and holds a pair, also when the candidate lane was read from the
\* replicated bytes at positions >= capacity; no call ends in a read of a
\* slot without a pair; and an EMPTY or TOMBSTONE byte is a candidate for
\* no h2 in 0 .. 127.
StorageUnderFull_C31 ==
    /\ status # "ub"
    /\ ReadsUnderFull(map) /\ ReadsUnderFull(other)
    /\ \A k \in CallKeys :
          /\ probe_find(fam, cur, k).tag # "UninitRead"
          /\ \A h2 \in {bucket_index_and_h2(fam, cur, k)[2], 0, MASK} :
                \A lane \in 1..2 :
                   ~to_candidates([l \in 1..GROUP_SIZE |-> IF l = 1 THEN empty ELSE tombstone],
                                  from_h2(h2))[lane]

\* after a remove has left a TOMBSTONE, a key is found through a candidate
\* lane of the replicated bytes: its bucket lies below the start of a window
\* of its probe, at a position >= capacity of that window
Witness_C31 ==
    /\ status = "ok" /\ last.op = "remove" /\ last.ret # None
    /\ \E i \in Bucket(cur) : cur.metadata[i + 1] = tombstone
    /\ \E k \in CallKeys : \E s \in 0..1 :
          /\ probe_find(fam, cur, k).tag = "Full"
          /\ probe_find(fam, cur, k).index < probe_start(cur, k, s)
          /\ probe_find(fam, cur, k).index + n_buckets(cur) < probe_start(cur, k, s) + GROUP_SIZE


\* C32 (insert always finds a place): in every reachable state in which a
\* call can be made, for every key insert may be called with, the table
\* that insert hands to its probe (the table itself, or the one resize has
\* built when needs_resize holds) has capacity > 0 and n_occupied < capacity,
\* and the probe returns Empty or Full; resize itself comes to its end, that
\* is every re-insertion into the fresh table found Empty or Full.
InsertFindsPlace_C32 ==
    CanCall =>
       \E r \in {IF needs_resize(cur) THEN resize(fam, cur) ELSE Outcome(cur, None, "ok")} :
          /\ r.st = "ok"
          /\ n_buckets(r.map) > 0
          /\ r.map.n_occupied < n_buckets(r.map)
          /\ \A k \in CallKeys : probe_find(fam, r.map, k).tag \in {"Empty", "Full"}

\* the insert of key 33 has found the table of 32 buckets completely
\* occupied, resize has re-inserted the 32 pairs into 64 buckets and the
\* probe has found an EMPTY bucket for the key
Witness_C32 ==
    /\ status = "ok" /\ last.op = "insert" /\ last.k = 33 /\ last.ret = None
    /\ n_buckets(cur) = 64 /\ cur.n_items = 33 /\ cur.n_occupied = 33


\* C33 (no duplicate keys): in every state of the table reached by insert,
\* remove and resize, no two FULL buckets hold equal keys, and the metadata
\* byte of every FULL bucket is the h2 (low 7 bits of the hash) of the key
\* stored in it.
NoDuplicateKeys_C33 ==
    /\ NoDuplicate(map)
    /\ \A i \in Bucket(map) :
          is_full(map.metadata[i + 1]) =>
             map.metadata[i + 1] = from_h2(bucket_index_and_h2(fam, map, map.storage[i + 1][1])[2])

\* a present key has been inserted again while a TOMBSTONE lies in a window
\* its probe loads no later than the window of its bucket: the key was found
\* and overwritten, not stored a second time
Witness_C33 ==
    /\ status = "ok" /\ cloned = 0
    /\ last.op = "insert" /\ last.ret # None
    /\ \E i \in Bucket(map) :
          /\ map.metadata[i + 1] = tombstone
          /\ probe_reaches(map, last.k, i) <= probe_reaches(map, last.k, probe_find(fam, map, last.k).index)
          /\ Cardinality(Holders(map, last.k)) = 1


\* the buckets of a sixth::Map and those whose byte is a TOMBSTONE
Bucket6(m) == 0..(m.n_buckets - 1)

Tombstones6(m) == {i \in Bucket6(m) : m.metadata[i + 1] = tombstone}

\* C34 (sixth::Map never reclaims or reuses tombstones): n_occupied always
\* equals the number of non-EMPTY buckets; a remove of a present key writes
\* a TOMBSTONE over the byte of its bucket and changes nothing else but
\* n_items; an insert of an absent key into a table that needs no resize
\* turns one EMPTY byte into a FULL one, leaves every TOMBSTONE in place and
\* increments n_occupied; n_occupied goes down only in an insert that
\* resizes, after which no TOMBSTONE is left and n_occupied = n_items.
NoTombstoneReuse_C34 ==
    /\ [](six.n_occupied = Cardinality({i \in Bucket6(six) : ~is_empty(six.metadata[i + 1])}))
    /\ [][ (status = "ok" /\ status' = "ok") =>
             /\ (last'.op = "remove" /\ last'.ret # None) =>
                   /\ \E i \in Bucket6(six) :
                         /\ is_value(six.metadata[i + 1]) /\ six.storage[i + 1][1] = last'.k
                         /\ six'.metadata = [six.metadata EXCEPT ![i + 1] = tombstone]
                   /\ six'.n_items = six.n_items - 1
                   /\ six'.n_occupied = six.n_occupied
                   /\ six'.n_buckets = six.n_buckets
             /\ (last'.op = "insert" /\ last'.ret = None /\ ~sixth_needs_resize(six)) =>
                   /\ \E i \in Bucket6(six) :
                         /\ is_empty(six.metadata[i + 1])
                         /\ six'.metadata = [six.metadata EXCEPT ![i + 1] = from_h2(make_hash(fam, last'.k))]
                   /\ Tombstones6(six') = Tombstones6(six)
                   /\ six'.n_occupied = six.n_occupied + 1
             /\ (last'.op = "insert" /\ sixth_needs_resize(six)) =>
                   /\ Tombstones6(six') = {}
                   /\ six'.n_occupied = six'.n_items
             /\ six'.n_occupied < six.n_occupied =>
                   last'.op = "insert" /\ sixth_needs_resize(six) ]_vars

\* a new key has been inserted whose home bucket holds the TOMBSTONE of a
\* removed key: the TOMBSTONE is still there and the insert has taken an
\* EMPTY bucket
Witness_C34 ==
    /\ status = "ok" /\ last.op = "insert" /\ last.ret = None
    /\ six.n_buckets > 0
    /\ six.metadata[sixth_bucket_index_and_h2(fam, six, last.k)[1] + 1] = tombstone
    /\ six.n_occupied = six.n_items + 1


\* C35 (sixth::Map probing terminates and its panic is unreachable): in
\* every reachable state with n_buckets > 0 and for every key a call may
\* name, the loop of probe_find comes back to the home bucket after at most
\* 2 * n_buckets iterations, so it stops, and by then it has looked at every
\* bucket, so End is returned only after every bucket was examined; no call
\* has ended in the panic of _insert, and no insert that can be made next
\* ends in it.
ProbeTerminates_C35 ==
    /\ status # "panic"
    /\ (status = "ok" /\ six.n_buckets > 0) =>
          \A k \in CallKeys :
             \E home \in {sixth_bucket_index_and_h2(fam, six, k)[1]} :
                /\ \E j \in 0..(2 * six.n_buckets) :
                      sixth_probe_at(home, j + 1, six.n_buckets) = home
                /\ {sixth_probe_at(home, i, six.n_buckets) :
                       i \in 0..sixth_probe_last(home, six.n_buckets)} = Bucket6(six)
                /\ sixth_probe_find(fam, six, k).tag \in {"Empty", "Full", "End"}
    /\ status = "ok" =>
          \A k \in CallKeys : sixth_insert(fam, six, heap, k, 1).st = "ok"

\* a get of an absent key on a table without an EMPTY bucket: the probe has
\* looked at every bucket and returned End, and the get None
Witness_C35 ==
    /\ status = "ok" /\ last.op = "get" /\ last.ret = None
    /\ six.n_buckets > 0 /\ six.n_occupied = six.n_buckets
    /\ sixth_probe_find(fam, six, last.k).tag = "End"


\* C36 (sixth::Map refines an abstract dictionary): along every sequence
\* of insert, remove and get, under each hash assignment, every call ends
\* normally and returns what the dictionary of the calls so far gives
\* (insert: the previous value of the key or None; remove: the removed value
\* or None; get: the current value or None, also on a table of capacity 0
\* and on a table without an EMPTY bucket), and len() is the number of keys
\* of the dictionary.
Refinement_C36 ==
    /\ [](status \in {"ok", "dropped"})
    /\ [](sixth_len(six) = Cardinality({k \in Keys : model[k] # None}))
    /\ [][ last'.op \in {"insert", "remove", "get"} =>
             /\ last'.ret = model[last'.k]
             /\ model' = IF last'.op = "insert" THEN [model EXCEPT ![last'.k] = last'.v]
                         ELSE IF last'.op = "remove" THEN [model EXCEPT ![last'.k] = None]
                         ELSE model
             /\ sixth_get(fam, six', heap', last'.k).ret = model'[last'.k] ]_vars

\* a key that was inserted and then removed is looked up: get returns None
\* while the TOMBSTONE of the key is in the table and other keys remain
Witness_C36 ==
    /\ status = "ok" /\ last.op = "get" /\ last.ret = None
    /\ last.k <= used /\ model[last.k] = None
    /\ Tombstones6(six) # {}
    /\ six.n_items > 0


\* C37 (CbHashMap overwrite): in every step where key k is present with
\* value v1, insert(k, v2) returns Some(v1), leaves len() as it was and
\* leaves k stored in exactly one bucket, so that len() stays the number of
\* distinct keys stored; also when a TOMBSTONE lies on the probe path of k
\* before k.
OverwriteCb_C37 ==
    [][ LET holders(m, k) ==
                {i \in 0..(m.n_buckets - 1) :
                    is_value(m.metadata[i + 1]) /\ m.storage[i + 1][1] = k}
        IN  (status = "ok" /\ last'.op = "insert" /\ model[last'.k] # None) =>
               /\ status' = "ok"
               /\ last'.ret = model[last'.k]
               /\ CbHashMap_len(cb') = CbHashMap_len(cb)
               /\ Cardinality(holders(cb', last'.k)) = 1
               /\ CbHashMap_len(cb') = Cardinality({k \in Keys : holders(cb', k) # {}}) ]_vars

\* C38 (CbHashMap lookups terminate): in every step, also on a new() map
\* without buckets and on a table without an EMPTY bucket, get, get_mut and
\* remove of a key, present or absent, return after finitely many probe
\* steps, and return None for an absent key.
LookupsTerminateCb_C38 ==
    [][ (status = "ok" /\ last'.op \in {"get", "get_mut", "remove"}) =>
          /\ status' = "ok"
          /\ model[last'.k] = None => last'.ret = None ]_vars


\* C39 (CbHashMap keeps its capacity over remove-all and reinsert): from
\* new(), after N distinct keys have been inserted, removing all of them
\* leaves n_buckets as it was and len() = 0, and inserting the same N keys
\* again ends with len() = N and n_buckets still as it was: every call of
\* the two rounds returns and none of them changes n_buckets.
ReinsertKeepsCapacityCb_C39 ==
    [][ tail' > 0 =>
          /\ status' = "ok"
          /\ cb'.n_buckets = cb.n_buckets
          /\ tail' = used' => CbHashMap_len(cb') = 0
          /\ tail' = 2 * used' => CbHashMap_len(cb') = used' ]_vars

\* 16 keys have filled the 16 buckets of the table, all were removed and
\* all inserted again, each into a TOMBSTONE: 16 buckets, 16 keys, and all
\* 16 buckets occupied
Witness_C39 ==
    /\ status = "ok" /\ last.op = "insert" /\ used = 16 /\ tail = 32
    /\ cb.n_buckets = 16 /\ cb.n_items = 16 /\ cb.n_occupied = 16


\* C40 (mask iteration): for every mask, the items MaskIter::forward has
\* returned so far are the lowest set lanes in ascending order, each once,
\* those of MaskIter::reverse the highest set lanes in descending order;
\* next() returns None exactly when every set lane has been returned, so
\* the whole iteration yields exactly the set lanes; find_first and
\* find_last of the mask return its smallest and largest set lane, and None
\* (16) iff the mask is zero.
MaskIteration_C40 ==
    LET SetLanes(x) == {i \in 0..(GROUP_SIZE - 1) : (x \div Pow2[i + 1]) % 2 = 1}
        n == Len(iter.yielded)
        seen == {iter.yielded[i] : i \in 1..n}
        lanes == [l \in 1..GROUP_SIZE |-> (l - 1) \in SetLanes(iter.mask)]
    IN  /\ last.op = "forward" =>
              /\ \A i \in 1..(n - 1) : iter.yielded[i] < iter.yielded[i + 1]
              /\ seen = {i \in SetLanes(iter.mask) : n > 0 /\ i <= iter.yielded[n]}
              /\ (forward_next(iter.inner)[1] = GROUP_SIZE) <=> (seen = SetLanes(iter.mask))
        /\ last.op = "reverse" =>
              /\ \A i \in 1..(n - 1) : iter.yielded[i] > iter.yielded[i + 1]
              /\ seen = {i \in SetLanes(iter.mask) : n > 0 /\ i >= iter.yielded[n]}
              /\ (reverse_next(iter.inner)[1] = GROUP_SIZE) <=> (seen = SetLanes(iter.mask))
        /\ iter.ended => seen = SetLanes(iter.mask)
        /\ last.op \in {"forward", "reverse"} =>
              /\ find_first(lanes) = IF iter.mask = 0 THEN GROUP_SIZE
                                     ELSE CHOOSE i \in SetLanes(iter.mask) :
                                             \A j \in SetLanes(iter.mask) : i <= j
              /\ find_last(lanes) = IF iter.mask = 0 THEN GROUP_SIZE
                                    ELSE CHOOSE i \in SetLanes(iter.mask) :
                                            \A j \in SetLanes(iter.mask) : i >= j

\* MaskIter::reverse on a mask with the lanes 0 and 15 and others set has
\* returned them all, 15 first and 0 last, and then None
Witness_C40 ==
    /\ last.op = "reverse" /\ iter.ended
    /\ Len(iter.yielded) >= 3
    /\ iter.yielded[1] = 15 /\ iter.yielded[Len(iter.yielded)] = 0

====
